---- MODULE Spec2Model ----
(***************************************************************************)
(* A model of MindustryLauncher: the process supervisor (startProcess,     *)
(* restart, copyMods, launch, handleCommand), the version resolver         *)
(* (Version.fromInput, getLatestVersion) and the version download          *)
(* (Version.download, downloadFile, resolveRedirect).                      *)
(*                                                                         *)
(* The launcher is one Node.js process: every action below is one run of   *)
(* the event loop to the next point where the code awaits real I/O (a      *)
(* gradle child's exit, a directory read, an HTTP response).               *)
(***************************************************************************)
EXTENDS Integers, Sequences, FiniteSets, TLC

(***************************************************************************)
(* Bounds of the model.                                                    *)
(***************************************************************************)
\* restart() calls in one run of the launcher
MaxRestarts == 2

\* external mods of one copyMods call
MaxMods == 2

\* chunks a child writes to stdout and stderr
MaxOutputs == 2

\* tokens a version string of a run is made of
MaxTokens == 3

\* chunks of a response body
MaxChunks == 2

\* state.mindustryProcess = null
NoProc == 0

ProcIds == 1..(MaxRestarts + 1)
RestartIds == 1..MaxRestarts
\* exit codes a child reports: clean, crashed, ended by a handled SIGTERM
ExitCodes == {0, 1, 143}

VARIABLES
  \* ---- process supervisor ----
  launcher,          \* "starting" | "running" | "exited": the launcher process
  exitCode,          \* the launcher's exit code, once exited
  exitCause,         \* which process.exit() (or crash) ended the launcher
  exitProc,          \* the child whose exit handler ended the launcher
  exitStatus,        \* the statusCode that exit handler was given
  procs,             \* every child spawned by startProcess
  nProcs,            \* how many children have been spawned
  mindustryProcess,  \* state.mindustryProcess: a ProcId or NoProc
  buildMods,         \* state.buildMods
  restarts,          \* every restart() call and where it is
  nRestarts,         \* how many restart() calls have been made
  settings,          \* what init() and Version.fromInput fixed for this run
  notifications,     \* how many changes of a mod path fs.watchFile would report
  commandOutput,     \* what the last handleCommand call itself logged or wrote
  \* ---- Version.fromInput ----
  vPc,               \* "idle" | "awaitingLatest" | "done" | "failed" | "crashed"
  vInput,            \* the version string, the custom names and the file system
  vLocation,         \* the redirect target getLatestVersion was answered with
  vResult,           \* the Version returned, if any
  vError,            \* how fromInput failed, if it did
  \* ---- Version.download ----
  dPc,               \* where download() is
  dVersion,          \* the Version being downloaded
  dFiles,            \* what is at each path the download touches
  dRet,              \* "pending", or what download() returned: "true" | "false"
  dStream,           \* the body being piped into the write stream
  \* ---- copyMods ----
  mMods,             \* state.externalMods: the type of each mod
  mSettings,         \* settings.buildModsConcurrently and state.buildMods
  mTasks,            \* where the task of each mod is
  mPc,               \* "idle" | "awaiting" | "resolved" | "rejected": copyMods itself
  mAwaited,          \* the task the sequential loop is awaiting, 0 when none
  \* ---- the output of a child ----
  gSettings,         \* settings.logging
  gUsername,         \* state.username
  gBuffers,          \* the unfinished line each line transform holds
  gColors,           \* the state of each LoggerHighlightTransform
  gLogFile,          \* what has been written to state.currentLogStream
  gConsole,          \* what has been written to process.stdout
  gChunks,           \* how many chunks the child has written
  \* ---- the launch command ----
  lPc,               \* where the impl of the launch command is
  lArgs,             \* opts.namedArgs.compile and opts.namedArgs.yes
  lResult,           \* how the impl ended: what it returned or threw, and why
  lDid,              \* what the impl has done: "jarSeen", "download", "copyMods"
  \* ---- resolveRedirect ----
  rUrl,              \* the url resolveRedirect was called with
  rGets,             \* how many GET requests the call has issued
  rReply,            \* what the request was answered with
  rPromise,          \* the promise resolveRedirect returned
  \* ---- the arguments of the child ----
  aPositional,       \* opts.positionalArgs
  aConfigured,       \* settings.jvmArgs and settings.processArgs
  aState,            \* state.jvmArgs and state.mindustryArgs, once init() has run
  aArgv,             \* the argument list spawn("java", ...) was called with
  \* ---- the scan of a family registry ----
  fRegistry,         \* the entries of the registry, in iteration order
  fVersion,          \* the version string
  fFound,            \* versionType and versionNumber after the loop
  \* ---- the wall clock ----
  now,               \* the second new Date() falls in
  \* ---- the watched mod paths on disk ----
  wExternal,         \* how often something outside the launcher changed a watched path
  wWrote,            \* the restarts whose mod build changed a watched path
  \* ---- the event listeners of the launcher ----
  hStdin,            \* the "data" listeners on process.stdin
  hWatch,            \* the listeners fs.watchFile was called with
  \* ---- a WindowedMean ----
  sMax,              \* maxWindowSize
  sData,             \* data: maxWindowSize pairs [value, duration]
  sQueuei,           \* queuei
  sLastTime,         \* lastTime
  sClock,            \* what Date.now() returned last
  sAdds,             \* the calls of add() so far
  sHist,             \* the pairs add() has stored, oldest first
  sResult,           \* the last call of mean() and what it returned
  \* ---- one line transform fed a text in chunks ----
  kKind,             \* which transform: LoggerHighlightTransform or prependTextTransform
  kText,             \* the text the stream carries
  kRest,             \* the part of it not yet written to the transform
  kLine,             \* this._line
  kState,            \* this.state
  kOut               \* what the transform has pushed so far

supervisorVars == <<launcher, exitCode, exitCause, exitProc, exitStatus, procs,
                    nProcs, mindustryProcess, buildMods, restarts, nRestarts,
                    settings, notifications, commandOutput>>

versionVars == <<vPc, vInput, vLocation, vResult, vError>>

downloadVars == <<dPc, dVersion, dFiles, dRet, dStream>>

modSyncVars == <<mMods, mSettings, mTasks, mPc, mAwaited>>

logVars == <<gSettings, gUsername, gBuffers, gColors, gLogFile, gConsole, gChunks>>

launchVars == <<lPc, lArgs, lResult, lDid>>

redirectVars == <<rUrl, rGets, rReply, rPromise>>

argVars == <<aPositional, aConfigured, aState, aArgv>>

registryVars == <<fRegistry, fVersion, fFound>>

clockVars == <<now>>

watchVars == <<wExternal, wWrote>>

handlerVars == <<hStdin, hWatch>>

meanVars == <<sMax, sData, sQueuei, sLastTime, sClock, sAdds, sHist, sResult>>

chunkVars == <<kKind, kText, kRest, kLine, kState, kOut>>

\* the parts that are modelled on their own
restVars == <<redirectVars, argVars, registryVars, clockVars, watchVars, handlerVars,
              meanVars, chunkVars>>

vars == <<supervisorVars, versionVars, downloadVars, modSyncVars, logVars, launchVars,
          restVars>>

\* what the actions of one part leave alone
exceptSupervisor == <<versionVars, downloadVars, modSyncVars, logVars, launchVars, restVars>>
exceptVersion == <<supervisorVars, downloadVars, modSyncVars, logVars, launchVars, restVars>>
exceptDownload == <<supervisorVars, versionVars, modSyncVars, logVars, launchVars, restVars>>
exceptModSync == <<supervisorVars, versionVars, downloadVars, logVars, launchVars, restVars>>
exceptLog == <<supervisorVars, versionVars, downloadVars, modSyncVars, launchVars, restVars>>
mainVars == <<supervisorVars, versionVars, downloadVars, modSyncVars, logVars, launchVars>>
exceptRedirect ==
  <<mainVars, argVars, registryVars, clockVars, watchVars, handlerVars, meanVars,
    chunkVars>>
exceptArgs ==
  <<mainVars, redirectVars, registryVars, clockVars, watchVars, handlerVars, meanVars,
    chunkVars>>
exceptRegistry ==
  <<mainVars, redirectVars, argVars, clockVars, watchVars, handlerVars, meanVars,
    chunkVars>>
exceptClock ==
  <<mainVars, redirectVars, argVars, registryVars, watchVars, handlerVars, meanVars,
    chunkVars>>
exceptWatch ==
  <<mainVars, redirectVars, argVars, registryVars, clockVars, handlerVars, meanVars,
    chunkVars>>
\* what launch() leaves alone besides the supervisor
exceptLaunch == <<versionVars, downloadVars, modSyncVars, logVars, launchVars,
                  redirectVars, argVars, registryVars, clockVars, watchVars, meanVars,
                  chunkVars>>
exceptMean == <<mainVars, redirectVars, argVars, registryVars, clockVars, watchVars,
                handlerVars, chunkVars>>
exceptChunks == <<mainVars, redirectVars, argVars, registryVars, clockVars, watchVars,
                  handlerVars, meanVars>>

(***************************************************************************)
(* Process supervisor                                                      *)
(***************************************************************************)

\* A child's exit as the "exit" event reports it: statusCode is a number, or
\* null when the child was ended by a signal.
ExitStatuses == [signal : {FALSE}, code : ExitCodes] \cup {[signal |-> TRUE, code |-> 0]}

\* The external mod lists the runs are drawn from, as init() classifies them.
ModLists == { <<>>, <<"dir", "invalid">>, <<"file", "java">> }

HasJavaMod(mods) == \E i \in 1..Len(mods) : mods[i] = "java"
HasWatchedMod(mods) == \E i \in 1..Len(mods) : mods[i] \in {"file", "dir", "java"}

UnbornProc == [alive |-> FALSE, listeners |-> FALSE, signalled |-> FALSE, spawnedBy |-> 0,
               logFile |-> <<>>]
IdleRestart == [pc |-> "idle", by |-> "nobody", build |-> FALSE, compile |-> FALSE,
                old |-> NoProc, compiled |-> "notyet", synced |-> "notyet",
                spawned |-> NoProc]

\* Optional values: null is <<>>, a value v is <<v>>.
None == <<>>
Some(v) == <<v>>

\* What one handleCommand call logs or writes itself (restart() logs its own lines).
NoOutput == [log |-> "", wrote |-> None, to |-> NoProc]
Logged(message) == [NoOutput EXCEPT !.log = message]

InitSupervisor ==
  /\ launcher = "starting"
  /\ exitCode = 0
  /\ exitCause = "none"
  /\ exitProc = NoProc
  /\ exitStatus = [signal |-> FALSE, code |-> 0]
  /\ procs = [p \in ProcIds |-> UnbornProc]
  /\ nProcs = 0
  /\ mindustryProcess = NoProc
  /\ buildMods \in BOOLEAN
  /\ restarts = [r \in RestartIds |-> IdleRestart]
  /\ nRestarts = 0
  /\ settings \in [isSourceDirectory : BOOLEAN,
                   externalMods : ModLists,
                   restartAutomaticallyOnModUpdate : BOOLEAN]
  /\ notifications = 0
  /\ commandOutput = NoOutput

\* A number in a template literal: its decimal digits, no padding.
RECURSIVE NumberString(_)
NumberString(n) ==
  LET digit(k) == <<"0", "1", "2", "3", "4", "5", "6", "7", "8", "9">>[k + 1]
  IN IF n < 10 THEN <<digit(n)>>
     ELSE NumberString(n \div 10) \o <<digit(n % 10)>>

\* The day every instant of a run falls in: getFullYear(), getMonth(), getDate().
ClockDay == [year |-> 2024, month |-> 0, date |-> 1]

\* The log file name startProcess builds from new Date(), t seconds into ClockDay.
LogFileName(t) ==
  NumberString(ClockDay.year) \o <<"-">> \o NumberString(ClockDay.month + 1) \o <<"-">>
    \o NumberString(ClockDay.date) \o <<"-", "-">>
    \o NumberString((t \div 3600) % 24) \o <<"-">>
    \o NumberString((t \div 60) % 60) \o <<"-">>
    \o NumberString(t % 60) \o <<".", "t", "x", "t">>

\* startProcess: spawn java, open the log file when logging is enabled, attach the
\* exit handler, return the handle.  by = the restart that spawned it, 0 for launch().
StartProcess(ps, by) ==
  [ps EXCEPT ![nProcs + 1] =
     [alive |-> TRUE, listeners |-> TRUE, signalled |-> FALSE, spawnedBy |-> by,
      logFile |-> IF gSettings.enabled THEN <<LogFileName(now)>> ELSE <<>>]]

\* An exit handler that never sets process.exitCode.
ExitHandlerCode_NeverForwards(status) == 0

\* The exit handler startProcess attaches: the launcher's exit code for a statusCode.
\* process.exitCode is only set for a truthy statusCode; process.exit() without
\* one ends the launcher with 0.
ExitHandlerCode(status) ==
  IF ~status.signal /\ status.code = 0 THEN 0
  ELSE IF ~status.signal /\ status.code # 0 THEN status.code
  ELSE 0

\* DetachAndKill without removeAllListeners(): the child is only signalled.
DetachAndKill_KeepsListeners(ps, p) ==
  IF p = NoProc THEN ps
  ELSE [ps EXCEPT ![p].signalled = TRUE]

\* state.mindustryProcess?.removeAllListeners(); state.mindustryProcess?.kill("SIGTERM")
DetachAndKill(ps, p) ==
  IF p = NoProc THEN ps
  ELSE [ps EXCEPT ![p].listeners = FALSE, ![p].signalled = TRUE]

ProcessExit(code, cause) ==
  /\ launcher' = "exited"
  /\ exitCode' = code
  /\ exitCause' = cause

\* A launch() that watches the mods whatever the setting says.
WatchersOfLaunch_IgnoresSetting ==
  Cardinality({i \in 1..Len(settings.externalMods) :
                 settings.externalMods[i] \in {"file", "dir", "java"}})

\* The fs.watchFile calls of launch(): one per file, dir and java mod when
\* restartAutomaticallyOnModUpdate is set, none otherwise.
WatchersOfLaunch ==
  IF settings.restartAutomaticallyOnModUpdate
  THEN Cardinality({i \in 1..Len(settings.externalMods) :
                      settings.externalMods[i] \in {"file", "dir", "java"}})
  ELSE 0

\* launch(state): spawn the first child, register the command handler and the
\* file watchers.
Launch ==
  /\ launcher = "starting"
  /\ launcher' = "running"
  /\ procs' = StartProcess(procs, 0)
  /\ nProcs' = nProcs + 1
  /\ mindustryProcess' = nProcs + 1
  /\ hStdin' = hStdin + 1
  /\ hWatch' = hWatch + WatchersOfLaunch
  /\ UNCHANGED <<exitCode, exitCause, exitProc, exitStatus, buildMods, restarts,
                 nRestarts, settings, notifications, commandOutput>>
  /\ UNCHANGED exceptLaunch

\* A copyMods that never builds.
CopyModsReads_NeverBuilds(flag) == "copy"

\* copyMods(state) is called: every java mod task reads state.buildMods before
\* its first await. The call suspends on real I/O only when a java mod is present.
CopyModsReads(flag) == IF flag THEN "build" ELSE "copy"
CopyModsSuspends == HasJavaMod(settings.externalMods)

\* copyFileSync and copyDirectory in the task of a file or directory mod throw when
\* the mod cannot be read or the mods folder cannot be written.
CopyModsCanThrow ==
  \E i \in 1..Len(settings.externalMods) : settings.externalMods[i] \in {"file", "dir"}

\* restart() rejects. handleCommand and the watchers call it with "void", so the
\* rejection is unhandled: Node either ends the process with code 1 (the default
\* since Node 15) or only warns, by version and flags.
UnhandledRejection ==
  \E fatal \in BOOLEAN :
    IF fatal THEN ProcessExit(1, "unhandledRejection")
    ELSE UNCHANGED <<launcher, exitCode, exitCause>>

\* A restart() that calls copyMods without awaiting it and spawns at once.
CallCopyMods_NotAwaited(r, rec, ps, flag) ==
  /\ restarts' = [restarts EXCEPT ![r] =
                    [rec EXCEPT !.pc = IF CopyModsSuspends THEN "copying" ELSE "done",
                                !.synced = CopyModsReads(flag),
                                !.spawned = nProcs + 1]]
  /\ procs' = StartProcess(ps, r)
  /\ nProcs' = nProcs + 1
  /\ mindustryProcess' = nProcs + 1
  /\ UNCHANGED <<launcher, exitCode, exitCause>>

\* The tail of restart() from "await copyMods(state)" on, for restart r whose
\* record so far is rec, with ps the children and flag the value of state.buildMods.
CallCopyMods(r, rec, ps, flag) ==
  IF CopyModsSuspends
  THEN /\ restarts' = [restarts EXCEPT ![r] = [rec EXCEPT !.pc = "copying",
                                                     !.synced = CopyModsReads(flag)]]
       /\ procs' = ps
       /\ nProcs' = nProcs
       /\ mindustryProcess' = NoProc
       /\ UNCHANGED <<launcher, exitCode, exitCause>>
  ELSE \E copied \in (IF CopyModsCanThrow THEN BOOLEAN ELSE {TRUE}) :
         IF copied
         THEN /\ restarts' = [restarts EXCEPT ![r] = [rec EXCEPT !.pc = "done",
                                                            !.synced = CopyModsReads(flag),
                                                            !.spawned = nProcs + 1]]
              /\ procs' = StartProcess(ps, r)
              /\ nProcs' = nProcs + 1
              /\ mindustryProcess' = nProcs + 1
              /\ UNCHANGED <<launcher, exitCode, exitCause>>
         ELSE /\ restarts' = [restarts EXCEPT ![r] = [rec EXCEPT !.pc = "failed",
                                                            !.synced = CopyModsReads(flag)]]
              /\ procs' = ps
              /\ nProcs' = nProcs
              /\ mindustryProcess' = NoProc
              /\ UnhandledRejection

\* A restart() that carries on after a failed compile.
CompileFailureEnds_Never(successful) == FALSE

\* restart(): if (!successful) { error("Build failed."); process.exit(1); }
CompileFailureEnds(successful) == ~successful

\* restart() after compileDirectory returned successful, for restart r whose record
\* so far is rec, with ps the children and flag the value of state.buildMods.
AfterCompile(r, rec, ps, flag, successful) ==
  LET compiled == [rec EXCEPT !.compiled = IF successful THEN "ok" ELSE "failed"]
  IN IF CompileFailureEnds(successful)
     THEN /\ restarts' = [restarts EXCEPT ![r] = [compiled EXCEPT !.pc = "failed"]]
          /\ procs' = ps
          /\ nProcs' = nProcs
          /\ mindustryProcess' = NoProc
          /\ ProcessExit(1, "compileFailed")
     ELSE CallCopyMods(r, compiled, ps, flag)

\* restart(state, build, compile) up to its first await on real I/O; by is who
\* called it: handleCommand ("command") or a watchFile callback ("watch").
RestartBegin(build, compile, by) ==
  /\ launcher = "running"
  /\ nRestarts < MaxRestarts
  /\ LET r == nRestarts + 1
         ps == DetachAndKill(procs, mindustryProcess)
         rec == [IdleRestart EXCEPT !.by = by, !.build = build, !.compile = compile,
                                    !.old = mindustryProcess]
     IN /\ nRestarts' = r
        /\ buildMods' = build
        /\ IF compile /\ settings.isSourceDirectory
           THEN \E descriptor \in BOOLEAN :
                  IF descriptor
                  THEN \* compileDirectory spawned gradle and awaits its exit
                       /\ restarts' = [restarts EXCEPT ![r] = [rec EXCEPT !.pc = "compiling"]]
                       /\ procs' = ps
                       /\ mindustryProcess' = NoProc
                       /\ UNCHANGED <<launcher, exitCode, exitCause, nProcs>>
                  ELSE \* no desktop/build.gradle: compileDirectory returns false
                       AfterCompile(r, rec, ps, build, FALSE)
           ELSE CallCopyMods(r, rec, ps, build)
  /\ UNCHANGED <<exitProc, exitStatus, settings>>
  /\ UNCHANGED exceptSupervisor

\* The gradle process of compileDirectory exits and restart() resumes.
CompileDone(r, ok) ==
  /\ launcher = "running"
  /\ restarts[r].pc = "compiling"
  /\ AfterCompile(r, restarts[r], procs, buildMods, ok)
  /\ UNCHANGED <<exitProc, exitStatus, buildMods, nRestarts, settings, notifications,
                 commandOutput>>
  /\ UNCHANGED exceptSupervisor

\* A restart() that resumes only once the child it signalled has exited.
CopyModsDone_AfterOldExit(r) ==
  /\ launcher = "running"
  /\ restarts[r].pc = "copying"
  /\ restarts[r].old # NoProc => ~procs[restarts[r].old].alive
  /\ restarts' = [restarts EXCEPT ![r].pc = "done", ![r].spawned = nProcs + 1]
  /\ procs' = StartProcess(procs, r)
  /\ nProcs' = nProcs + 1
  /\ mindustryProcess' = nProcs + 1
  /\ UNCHANGED <<launcher, exitCode, exitCause, exitProc, exitStatus, buildMods,
                 nRestarts, settings, notifications, commandOutput>>
  /\ UNCHANGED exceptSupervisor

\* copyMods resolves and restart() resumes: startProcess, "Started new process."
CopyModsDone(r) ==
  /\ launcher = "running"
  /\ restarts[r].pc = "copying"
  /\ restarts' = [restarts EXCEPT ![r].pc = "done", ![r].spawned = nProcs + 1]
  /\ procs' = StartProcess(procs, r)
  /\ nProcs' = nProcs + 1
  /\ mindustryProcess' = nProcs + 1
  /\ UNCHANGED <<launcher, exitCode, exitCause, exitProc, exitStatus, buildMods,
                 nRestarts, settings, notifications, commandOutput>>
  /\ UNCHANGED exceptSupervisor

\* copyMods rejects (a mod build fails, a build folder cannot be read, a copy
\* throws) and restart() rejects at its await.
CopyModsFail(r) ==
  /\ launcher = "running"
  /\ restarts[r].pc = "copying"
  /\ restarts' = [restarts EXCEPT ![r].pc = "failed"]
  /\ UnhandledRejection
  /\ UNCHANGED <<exitProc, exitStatus, procs, nProcs, mindustryProcess, buildMods,
                 nRestarts, settings, notifications, commandOutput>>
  /\ UNCHANGED exceptSupervisor

\* A child process ends (by itself, or after a SIGTERM); its "exit" event runs the
\* exit handler if that is still attached.
ChildExit(p, status) ==
  /\ launcher = "running"
  /\ procs[p].alive
  /\ procs' = [procs EXCEPT ![p].alive = FALSE]
  /\ IF procs[p].listeners
     THEN /\ ProcessExit(ExitHandlerCode(status), "childExit")
          /\ exitProc' = p
          /\ exitStatus' = status
     ELSE UNCHANGED <<launcher, exitCode, exitCause, exitProc, exitStatus>>
  /\ UNCHANGED <<nProcs, mindustryProcess, buildMods, restarts, nRestarts, settings,
                 notifications, commandOutput>>
  /\ UNCHANGED exceptSupervisor

(***************************************************************************)
(* handleCommand. A line is a sequence of one-character strings.           *)
(***************************************************************************)
UpperCase == <<"A", "B", "C", "D", "E", "F", "G", "H", "I", "J", "K", "L", "M",
               "N", "O", "P", "Q", "R", "S", "T", "U", "V", "W", "X", "Y", "Z">>
LowerCase == <<"a", "b", "c", "d", "e", "f", "g", "h", "i", "j", "k", "l", "m",
               "n", "o", "p", "q", "r", "s", "t", "u", "v", "w", "x", "y", "z">>

\* String.prototype.toLowerCase
ToLowerCase(s) ==
  [i \in 1..Len(s) |->
     IF \E k \in 1..Len(UpperCase) : UpperCase[k] = s[i]
     THEN LowerCase[CHOOSE k \in 1..Len(UpperCase) : UpperCase[k] = s[i]]
     ELSE s[i]]

\* data.toString().replace(/\r?\n$/, ""): one line end is taken off the end of
\* the chunk, nothing else.
StripLineEnd(data) ==
  LET n == Len(data)
  IN IF n >= 2 /\ data[n - 1] = "\r" /\ data[n] = "\n" THEN SubSeq(data, 1, n - 2)
     ELSE IF n >= 1 /\ data[n] = "\n" THEN SubSeq(data, 1, n - 1)
     ELSE data

\* Index of the first " " of input, Len(input) + 1 when it has none.
FirstSpace(input) ==
  LET spaces == {i \in 1..Len(input) : input[i] = " "}
  IN IF spaces = {} THEN Len(input) + 1
     ELSE CHOOSE i \in spaces : \A j \in spaces : i <= j

\* input.split(" ")[0].toLowerCase()
CommandWord(input) == ToLowerCase(SubSeq(input, 1, FirstSpace(input) - 1))

\* A pass that folds the text to lower case.
PassedText_LowerCase(input) ==
  ToLowerCase(SubSeq(input, FirstSpace(input) + 1, Len(input))) \o <<"\r", "\n">>

\* input.split(" ").slice(1).join(" ") + "\r\n"
PassedText(input) == SubSeq(input, FirstSpace(input) + 1, Len(input)) \o <<"\r", "\n">>


\* The case labels of the switch in handleCommand, by the branch they lead to.
CommandBranch(word) ==
  IF word \in {<<"r", "s">>, <<"r", "e", "s", "t", "a", "r", "t">>} THEN "restart"
  ELSE IF word \in {<<"r", "b">>, <<"r", "e", "b", "u", "i", "l", "d">>} THEN "rebuild"
  ELSE IF word \in {<<"r", "c">>, <<"r", "e", "c", "o", "m", "p", "i", "l", "e">>} THEN "recompile"
  ELSE IF word \in {<<"?">>, <<"h">>, <<"h", "e", "l", "p">>} THEN "help"
  ELSE IF word \in {<<"e", "x", "i", "t">>, <<"e">>, <<"q">>, <<"q", "u", "i", "t">>}
       THEN "exit"
  ELSE IF word \in {<<"p", "a", "s", "s">>, <<"-">>, <<"p">>} THEN "pass"
  ELSE "unknown"

\* The chunks stdin delivers, each one line with its line end: those the runs of
\* the supervisor are driven with,
SupervisorChunks ==
  { <<"r", "s", "\n">>, <<"r", "b", "\r", "\n">>, <<"r", "c", "\n">>, <<"e", "\n">> }

\* and those the runs of the command handler are driven with.
StdinChunks ==
  SupervisorChunks \cup
  { <<"R", "e", "s", "t", "a", "r", "t", "\n">>, <<"r", "e", "b", "u", "i", "l", "d", "\n">>,
    <<"r", "e", "c", "o", "m", "p", "i", "l", "e", " ", "n", "o", "w", "\n">>, <<"?", "\n">>, <<"h", "\n">>, <<"H", "E", "L", "P", "\n">>,
    <<"e", "x", "i", "t", "\n">>, <<"Q", "\n">>, <<"q", "u", "i", "t", "\n">>, <<"p", "a", "s", "s", " ", "h", "i", "\n">>,
    <<"-", " ", "\n">>, <<"p", " ", "a", " ", " ", "b", "\n">>, <<"\n">>, <<"x", "\n">>, <<"r", "s", "x", "\n">>,
    <<"r", "s", "\t", "x", "\n">>, <<" ", "r", "s", "\n">>, <<"r", "s">>,
    <<"P", " ", "H", " ", " ", "i", "\r", "\n">> }

\* handleCommand: restart|rs, rebuild|rb, recompile|rc
CommandRestart == RestartBegin(FALSE, FALSE, "command")
CommandRebuild == RestartBegin(TRUE, FALSE, "command")
\* A recompile command that also rebuilds the mods.
CommandRecompile_AlsoRebuilds == RestartBegin(TRUE, TRUE, "command")
CommandRecompile == RestartBegin(FALSE, TRUE, "command")

\* The frame of a handleCommand branch that only logs or writes.
CommandOnlyOutputs ==
  UNCHANGED <<launcher, exitCode, exitCause, exitProc, exitStatus, procs, nProcs,
              mindustryProcess, buildMods, restarts, nRestarts, settings>>

\* An exit command that leaves the exit handler on the child.
CommandExit_KeepsHandler ==
  /\ launcher = "running"
  /\ procs' = DetachAndKill_KeepsListeners(procs, mindustryProcess)
  /\ ProcessExit(0, "exitCommand")
  /\ UNCHANGED <<exitProc, exitStatus, nProcs, mindustryProcess, buildMods, restarts,
                 nRestarts, settings>>
  /\ UNCHANGED exceptSupervisor

\* handleCommand: exit|e|quit|q
CommandExit ==
  /\ launcher = "running"
  /\ procs' = DetachAndKill(procs, mindustryProcess)
  /\ ProcessExit(0, "exitCommand")
  /\ UNCHANGED <<exitProc, exitStatus, nProcs, mindustryProcess, buildMods, restarts,
                 nRestarts, settings>>
  /\ UNCHANGED exceptSupervisor

\* handleCommand: help|h|?
CommandHelp ==
  /\ commandOutput' = Logged("Commands: 'restart/rs', 'rebuild/rb', 'recompile/rc', 'help/h/?', 'exit/e/quit/q'")
  /\ CommandOnlyOutputs

\* state.mindustryProcess?.stdin?.writable
StdinWritable == mindustryProcess # NoProc /\ procs[mindustryProcess].alive

\* handleCommand: pass|-|p
CommandPass(input) ==
  /\ commandOutput' = IF StdinWritable
                      THEN [log |-> "", wrote |-> Some(PassedText(input)),
                            to |-> mindustryProcess]
                      ELSE Logged("Error: Stream not writeable.")
  /\ CommandOnlyOutputs

\* A default branch that restarts.
CommandUnknown_Restarts ==
  /\ RestartBegin(FALSE, FALSE, "command")
  /\ commandOutput' = Logged("Unknown command.")

\* handleCommand: default
CommandUnknown ==
  /\ commandOutput' = Logged("Unknown command.")
  /\ CommandOnlyOutputs

\* handleCommand(input, state)
HandleCommand(input) ==
  LET branch == CommandBranch(CommandWord(input))
  IN CASE branch = "restart" -> CommandRestart /\ commandOutput' = NoOutput
       [] branch = "rebuild" -> CommandRebuild /\ commandOutput' = NoOutput
       [] branch = "recompile" -> CommandRecompile /\ commandOutput' = NoOutput
       [] branch = "help" -> CommandHelp
       [] branch = "exit" -> CommandExit /\ commandOutput' = Logged("Exiting...")
       [] branch = "pass" -> CommandPass(input)
       [] OTHER -> CommandUnknown

\* The "data" listener launch() puts on process.stdin.
StdinData(data) ==
  /\ launcher = "running"
  /\ HandleCommand(StripLineEnd(data))
  /\ UNCHANGED notifications
  /\ UNCHANGED exceptSupervisor

\* A launch() that puts the watchers on whatever the setting says.
WatchersRegistered_Always == HasWatchedMod(settings.externalMods)

\* launch() registers a watchFile callback per file, dir and java mod, and only
\* when restartAutomaticallyOnModUpdate is set.
WatchersRegistered ==
  /\ settings.restartAutomaticallyOnModUpdate
  /\ HasWatchedMod(settings.externalMods)

\* The path of a mod changes on disk. A watchFile callback registered by launch()
\* fires, if there is one: restart(state, true, false).
FileWatch ==
  /\ launcher = "running"
  /\ HasWatchedMod(settings.externalMods)
  /\ notifications < MaxRestarts
  /\ notifications' = notifications + 1
  /\ IF WatchersRegistered
     THEN RestartBegin(TRUE, FALSE, "watch")
     ELSE /\ UNCHANGED <<launcher, exitCode, exitCause, exitProc, exitStatus, procs,
                         nProcs, mindustryProcess, buildMods, restarts, nRestarts,
                         settings>>
          /\ UNCHANGED exceptSupervisor
  /\ UNCHANGED commandOutput

\* The changes of the watched paths so far, and whether fs.watchFile has one to
\* report: its poll compares the stat of a path with the one it saw last.
WatchedChanges == wExternal + Cardinality(wWrote)
ChangeUnreported == notifications < WatchedChanges

\* Something outside the launcher changes a watched path, once.
ExternalChange ==
  /\ launcher = "running"
  /\ wExternal = 0
  /\ wExternal' = 1
  /\ UNCHANGED wWrote
  /\ UNCHANGED exceptWatch

\* The "gradlew jar" that copyMods runs for a java mod when state.buildMods is set
\* writes the jar into build/libs of the mod, the path launch() watches. Whether a
\* run of it changes the directory is the build's: an up-to-date jar is left alone.
GradleWrites(r) ==
  /\ launcher = "running"
  /\ HasJavaMod(settings.externalMods)
  /\ restarts[r].pc = "copying"
  /\ restarts[r].synced = "build"
  /\ r \notin wWrote
  /\ wWrote' = wWrote \cup {r}
  /\ UNCHANGED wExternal
  /\ UNCHANGED exceptWatch

\* The poll of fs.watchFile finds a watched path changed and calls the callback
\* launch() registered: restart(state, true, false). Changes between two polls are
\* reported as one.
WatchPoll ==
  /\ launcher = "running"
  /\ WatchersRegistered
  /\ ChangeUnreported
  /\ notifications' = WatchedChanges
  /\ RestartBegin(TRUE, FALSE, "watch")
  /\ UNCHANGED commandOutput

\* restart(state, build, compile) called with any pair of flags.
RestartCall(build, compile) ==
  /\ RestartBegin(build, compile, "call")
  /\ UNCHANGED <<notifications, commandOutput>>

\* The seconds a run may last, and the seconds of ClockDay a run may begin in.
MaxSeconds == 2
ClockStarts == {0, 59}

\* The wall clock passes into the next second.
Tick ==
  /\ \E start \in ClockStarts : start <= now /\ now < start + MaxSeconds
  /\ now' = now + 1
  /\ UNCHANGED exceptClock

NextSupervisor ==
  \/ Launch
  \/ \E data \in SupervisorChunks : StdinData(data)
  \/ FileWatch
  \/ \E r \in RestartIds, ok \in BOOLEAN : CompileDone(r, ok)
  \/ \E r \in RestartIds : CopyModsDone(r)
  \/ \E r \in RestartIds : CopyModsFail(r)
  \/ \E p \in ProcIds, status \in ExitStatuses : ChildExit(p, status)

(***************************************************************************)
(* Strings are sequences of one-character strings; a path is a sequence of *)
(* path segments, each a string.                                           *)
(***************************************************************************)
Digits == {"0", "1", "2", "3", "4", "5", "6", "7", "8", "9"}

S_foo == <<"f", "o", "o", "-">>
S_foov6 == <<"f", "o", "o", "-", "v", "6", "-">>
S_be == <<"b", "e", "-">>
S_empty == <<>>
S_latest == <<"l", "a", "t", "e", "s", "t">>
S_dotjar == <<".", "j", "a", "r">>
S_tag == <<"/", "t", "a", "g", "/">>
S_tagv == <<"/", "t", "a", "g", "/", "v">>
S_toString == <<"t", "o", "S", "t", "r", "i", "n", "g">>

\* A prefix test that every string passes.
StartsWith_Always(s, prefix) == TRUE

\* String.prototype.startsWith
StartsWith(s, prefix) ==
  /\ Len(prefix) <= Len(s)
  /\ SubSeq(s, 1, Len(prefix)) = prefix

\* Does pat occur in s at index i (1-based)?
OccursAt(s, pat, i) ==
  /\ i >= 1
  /\ i + Len(pat) - 1 <= Len(s)
  /\ SubSeq(s, i, i + Len(pat) - 1) = pat

\* String.prototype.replace(pat, "") with a string pattern: the first occurrence
\* of pat is removed, s is returned as it is when there is none.
ReplaceFirst(s, pat) ==
  LET hits == {i \in 1..(Len(s) + 1) : OccursAt(s, pat, i)}
  IN IF hits = {} THEN s
     ELSE LET i == CHOOSE k \in hits : \A j \in hits : k <= j
          IN SubSeq(s, 1, i - 1) \o SubSeq(s, i + Len(pat), Len(s))

\* /^\d+$/
IsDigits(s) == Len(s) >= 1 /\ \A i \in 1..Len(s) : s[i] \in Digits

\* /\d+|latest/ and /\d+(?:\.\d+)?|latest/ without the ^ and $ anchors: a match
\* anywhere in the string is enough.
NumberValidator_Unanchored(validator, s) ==
  \/ \E i \in 1..Len(s) : s[i] \in Digits
  \/ \E i \in 1..Len(s) : OccursAt(s, S_latest, i)

\* versionData.numberValidator.test(s): /^(\d+|latest)$/ for foo, foo-v6 and be,
\* /^(\d+(?:\.\d+)?|latest)$/ for vanilla.
NumberValidator(validator, s) ==
  \/ s = S_latest
  \/ IsDigits(s)
  \/ /\ validator = "vanilla"
     /\ \E k \in 2..(Len(s) - 1) :
          /\ s[k] = "."
          /\ IsDigits(SubSeq(s, 1, k - 1))
          /\ IsDigits(SubSeq(s, k + 1, Len(s)))

\* The registry, in the order Object.entries iterates it.
versionUrls ==
  << [name |-> "foo", prefix |-> S_foo, numberValidator |-> "integer", getLatestVersion |-> S_tag],
     [name |-> "foo-v6", prefix |-> S_foov6, numberValidator |-> "integer", getLatestVersion |-> S_tag],
     [name |-> "be", prefix |-> S_be, numberValidator |-> "integer", getLatestVersion |-> S_tag],
     [name |-> "vanilla", prefix |-> S_empty, numberValidator |-> "vanilla", getLatestVersion |-> S_tagv] >>

VersionData(name) == CHOOSE f \in {versionUrls[i] : i \in 1..Len(versionUrls)} : f.name = name

\* The for loop of fromInput over the registry entries from index i on: every
\* structurally matching entry overwrites versionType and versionNumber, and
\* there is no break.
RECURSIVE ScanRegistry(_, _, _, _)
ScanRegistry(registry, version, i, acc) ==
  IF i > Len(registry) THEN acc
  ELSE LET versionData == registry[i]
           potentialVersionNumber == ReplaceFirst(version, versionData.prefix)
       IN IF /\ StartsWith(version, versionData.prefix)
             /\ NumberValidator(versionData.numberValidator, potentialVersionNumber)
          THEN ScanRegistry(registry, version, i + 1,
                 [versionType |-> Some(versionData.name),
                  versionNumber |-> Some(potentialVersionNumber)])
          ELSE ScanRegistry(registry, version, i + 1, acc)

\* The loop over the registry of the source.
ScanFamilies(version, i, acc) == ScanRegistry(versionUrls, version, i, acc)

NoFamily == [versionType |-> None, versionNumber |-> None]

\* A scan that falls back to the default family when nothing matches.
FamilyOf_DefaultsToVanilla(version) ==
  LET found == ScanFamilies(version, 1, NoFamily)
  IN IF found = NoFamily
     THEN [versionType |-> Some("vanilla"), versionNumber |-> Some(S_latest)]
     ELSE found

\* versionType and versionNumber after the loop.
FamilyOf(version) == ScanFamilies(version, 1, NoFamily)

\* The maximal run of digits of s that starts at index i.
DigitRunEnd(s, i) ==
  CHOOSE j \in i..Len(s) :
    /\ \A k \in i..j : s[k] \in Digits
    /\ (j = Len(s) \/ s[j + 1] \notin Digits)

\* versionData.getLatestVersion[1].exec(resolvedUrl)?.[1]:
\* /(?<=\/tag\/)(\d+)/ for foo, foo-v6 and be, /(?<=\/tag\/v)(\d+(?:\.\d)?)/ for
\* vanilla. None when the pattern does not match (the caller crashes).
ExecLatestPattern(name, resolvedUrl) ==
  LET behind == VersionData(name).getLatestVersion
      starts == {i \in 1..Len(resolvedUrl) :
                   /\ OccursAt(resolvedUrl, behind, i - Len(behind))
                   /\ resolvedUrl[i] \in Digits}
  IN IF starts = {} THEN None
     ELSE LET i == CHOOSE k \in starts : \A j \in starts : k <= j
              j == DigitRunEnd(resolvedUrl, i)
              fraction == /\ behind = S_tagv
                          /\ j + 2 <= Len(resolvedUrl)
                          /\ resolvedUrl[j + 1] = "."
                          /\ resolvedUrl[j + 2] \in Digits
          IN Some(SubSeq(resolvedUrl, i, IF fraction THEN j + 2 ELSE j))

\* path.join(a, b) for paths without "." and ".." segments.
PathJoin(a, b) == a \o b

\* settings.mindustryJars.folderPath
folderPath == << <<"d", "a", "t", "a">>, <<"v", "e", "r", "s", "i", "o", "n", "s">> >>

\* Version.builtJarLocation = "desktop/build/libs/Mindustry.jar"
builtJarLocation ==
  << <<"d", "e", "s", "k", "t", "o", "p">>, <<"b", "u", "i", "l", "d">>,
     <<"l", "i", "b", "s">>,
     <<"M", "i", "n", "d", "u", "s", "t", "r", "y", ".", "j", "a", "r">> >>

\* `v${versionUrls[versionType].prefix}${versionNumber}.jar`
JarName(versionType, versionNumber) ==
  <<"v">> \o VersionData(versionType).prefix \o versionNumber \o S_dotjar

\* new Version(path, isCustom, isSourceDirectory, versionType, versionNumber)
NewVersion(path, isCustom, isSourceDirectory, versionType, versionNumber) ==
  [path |-> path, isCustom |-> isCustom, isSourceDirectory |-> isSourceDirectory,
   versionType |-> versionType, versionNumber |-> versionNumber]

\* A family version whose path was computed from the number as typed, before
\* "latest" was resolved.
FamilyVersion_PathBeforeRewrite(versionType, typed, versionNumber) ==
  NewVersion(PathJoin(folderPath, <<JarName(versionType, typed)>>), FALSE, FALSE,
             Some(versionType), Some(versionNumber))

\* The end of fromInput for a family version: typed is the number as typed,
\* versionNumber the number after "latest" was resolved; the path is computed
\* from versionNumber.
FamilyVersion(versionType, typed, versionNumber) ==
  NewVersion(PathJoin(folderPath, <<JarName(versionType, versionNumber)>>), FALSE, FALSE,
             Some(versionType), Some(versionNumber))

\* Version.jarFilePath without the source-directory case.
jarFilePath_NoBuildOutput(version) == version.path

\* Version.jarFilePath
jarFilePath(version) ==
  IF version.isSourceDirectory THEN PathJoin(version.path, builtJarLocation)
  ELSE version.path

\* The tokens the version strings of the runs are made of.
InputTokens ==
  { S_empty, S_foo, S_foov6, S_be, <<"1">>, <<"6">>, <<".">>, S_latest, <<"x">>,
    S_toString }

RECURSIVE TokenStrings(_)
TokenStrings(n) ==
  IF n = 0 THEN {<<>>}
  ELSE {s \o t : s \in TokenStrings(n - 1), t \in InputTokens}

(***************************************************************************)
(* The scan of fromInput over other registries than the one of the source: *)
(* other entries, other orders.                                            *)
(***************************************************************************)
\* The longest registry of the runs.
MaxFamilies == 2

\* The entries registries are made of: those of the source, an entry with the
\* empty prefix for whole numbers only, and one with the prefix "foo-" for
\* numbers with a fraction.
RegistryEntries ==
  {versionUrls[i] : i \in 1..Len(versionUrls)}
    \cup { [name |-> "plain", prefix |-> S_empty, numberValidator |-> "integer",
            getLatestVersion |-> S_tag],
           [name |-> "foo-next", prefix |-> S_foo, numberValidator |-> "vanilla",
            getLatestVersion |-> S_tag] }

\* The sequences of n entries.
RECURSIVE RegistriesOf(_)
RegistriesOf(n) ==
  IF n = 0 THEN {<<>>}
  ELSE {r \o <<e>> : r \in RegistriesOf(n - 1), e \in RegistryEntries}

\* An object has each key once.
NoRepeat(r) == \A i, j \in 1..Len(r) : r[i].name = r[j].name => i = j

\* The registries of up to MaxFamilies entries, in every order.
Registries ==
  {r \in UNION {RegistriesOf(n) : n \in 1..MaxFamilies} : NoRepeat(r)}

\* The shipped registry in every iteration order.
ShippedOrders ==
  LET n == Len(versionUrls)
  IN {[i \in 1..n |-> versionUrls[p[i]]] :
        p \in {q \in [1..n -> 1..n] : \A i, j \in 1..n : q[i] = q[j] => i = j}}

\* The version strings the registries are scanned for: those of two tokens, and
\* numbers with a fraction.
RegistryVersions ==
  TokenStrings(2) \cup { <<"1", ".", "6">>, S_foo \o <<"1", ".", "6">>,
                         S_foov6 \o <<"1", ".", "6">> }

InitRegistry ==
  /\ fRegistry \in Registries \cup ShippedOrders
  /\ fVersion \in RegistryVersions
  /\ fFound = None

\* for (const [name, versionData] of Object.entries(versionUrls)) { ... }
RegistryScan ==
  /\ fFound = None
  /\ fFound' = Some(ScanRegistry(fRegistry, fVersion, 1, NoFamily))
  /\ UNCHANGED <<fRegistry, fVersion, exceptRegistry>>

NextRegistry == RegistryScan

(***************************************************************************)
(* Redirect Resolver                                                       *)
(***************************************************************************)
\* What https.get is answered with: a response (status code, Location header or
\* none), or an "error" event on the request.
RedirectLocations ==
  { S_tag \o <<"2", "3">>,
    <<"/", "r">> \o S_tagv \o <<"1", "4", "6">>,
    S_tagv \o <<"7", ".", "1", "0">>,
    S_tag \o S_latest,
    <<"/", "r", "/">> }
HttpReplies ==
  [kind : {"response"}, statusCode : {302, 404, 200},
   location : {None} \cup {Some(l) : l \in RedirectLocations}]
    \cup {[kind |-> "error", statusCode |-> 0, location |-> None]}

\* The calls of resolve and reject the response callback of resolveRedirect
\* makes, in order: it does not return after rejecting a status that is not 302.
ResolveRedirectCalls(res) ==
  (IF res.statusCode # 302
   THEN IF res.statusCode = 404
        THEN << [settled |-> "rejected", value |-> None, reason |-> "Version does not exist.",
                 got |-> 0] >>
        ELSE << [settled |-> "rejected", value |-> None, reason |-> "Error: Expected status 302",
                 got |-> res.statusCode] >>
   ELSE << >>)
  \o
  (IF res.location # None /\ res.location # Some(<<>>)
   THEN << [settled |-> "resolved", value |-> res.location, reason |-> "none", got |-> 0] >>
   ELSE << [settled |-> "rejected", value |-> None,
            reason |-> "Error: Server did not respond with redirect location.",
            got |-> 0] >>)

\* A promise that is settled by the last call of resolve or reject.
ResolveRedirect_LastCall(res) ==
  ResolveRedirectCalls(res)[Len(ResolveRedirectCalls(res))]

\* resolveRedirect(url) for a response: a promise settles once, by the first call.
ResolveRedirect(res) == Head(ResolveRedirectCalls(res))

\* The urls resolveRedirect is called with: versionData.getLatestVersion[0] and
\* versionData.url(number) of each family.
RedirectUrls ==
  [family : {versionUrls[i].name : i \in 1..Len(versionUrls)}, of : {"latest", "download"}]

\* What the GET of one resolveRedirect call is answered with: also a redirect
\* status that is not 302, and an empty Location header.
RedirectReplies ==
  HttpReplies
    \cup [kind : {"response"}, statusCode : {301},
          location : {None, Some(S_tag \o <<"2", "3">>)}]
    \cup [kind : {"response"}, statusCode : {302, 200}, location : {Some(<<>>)}]

NoReply == [kind |-> "none", statusCode |-> 0, location |-> None]
PendingPromise == [settled |-> "pending", value |-> None, reason |-> "none", got |-> 0]

InitRedirect ==
  /\ rUrl \in RedirectUrls
  /\ rGets = 0
  /\ rReply = NoReply
  /\ rPromise = PendingPromise

\* resolveRedirect(url): the executor of the promise calls https.get(url, callback).
RedirectCall ==
  /\ rGets = 0
  /\ rGets' = rGets + 1
  /\ UNCHANGED <<rUrl, rReply, rPromise, exceptRedirect>>

\* The callback of https.get runs with the response: it calls reject and resolve
\* and issues no further request.
RedirectResponse(res) ==
  /\ rGets = 1
  /\ rReply = NoReply
  /\ res.kind = "response"
  /\ rReply' = res
  /\ rPromise' = ResolveRedirect(res)
  /\ UNCHANGED <<rUrl, rGets, exceptRedirect>>

\* The request emits "error" (no connection): it has no listener, the callback
\* never runs and the promise is never settled.
RedirectError(res) ==
  /\ rGets = 1
  /\ rReply = NoReply
  /\ res.kind = "error"
  /\ rReply' = res
  /\ UNCHANGED <<rUrl, rGets, rPromise, exceptRedirect>>

NextRedirect ==
  \/ RedirectCall
  \/ \E res \in RedirectReplies : RedirectResponse(res)
  \/ \E res \in RedirectReplies : RedirectError(res)

(***************************************************************************)
(* Version.fromInput                                                       *)
(***************************************************************************)
VersionInputs == TokenStrings(MaxTokens)

\* The paths custom version names are mapped to; "" is the empty path.
P_jar == << <<"m">>, <<"a", ".", "j", "a", "r">> >>
P_src == << <<"m">>, <<"s", "r", "c">> >>
P_none == << >>
CustomPaths == {P_jar, P_src, P_none}

\* The names a settings file maps, one of them of the form <prefix><number>.
CustomNames == { <<"x">>, S_foo \o <<"1">> }

\* settings.mindustryJars.customVersionNames
CustomNameMaps ==
  { [n \in {<<"x">>} |-> P_jar],
    [n \in {<<"x">>} |-> P_none],
    [n \in {S_foo \o <<"1">>} |-> P_src],
    [n \in CustomNames |-> IF n = <<"x">> THEN P_src ELSE P_jar],
    [n \in {} |-> P_none] }

\* What is at a path: nothing, a file, a symbolic link to a directory, a
\* directory, a directory with desktop/build.gradle in it.
FileSystems ==
  { [p \in CustomPaths |-> IF p = P_jar THEN a ELSE IF p = P_src THEN b ELSE "missing"] :
      a \in {"missing", "file", "symlink"}, b \in {"missing", "directory", "sourceDirectory"} }

\* Object.prototype members every parsed settings object inherits (JSON.parse
\* returns plain objects): looking one up yields a function.
InheritedKeys == {S_toString}

\* state.settings.mindustryJars.customVersionNames[version]
LookupCustom(names, version) ==
  IF version \in DOMAIN names THEN [type |-> "string", path |-> names[version]]
  ELSE IF version \in InheritedKeys THEN [type |-> "function", path |-> P_none]
  ELSE [type |-> "undefined", path |-> P_none]

\* JavaScript truthiness of a looked-up value
Truthy(value) ==
  \/ value.type = "function"
  \/ value.type = "string" /\ value.path # P_none

\* fs.existsSync(filepath): false for what is not a path
ExistsSync(fs, value) == value.type = "string" /\ fs[value.path] # "missing"
\* fs.lstatSync(filepath).isDirectory(): a symbolic link is not followed
IsDirectory(fs, path) == fs[path] \in {"directory", "sourceDirectory"}
\* fs.accessSync(path.join(filepath, "/desktop/build.gradle")) does not throw
HasBuildGradle(fs, path) == fs[path] = "sourceDirectory"

NoVersion == None

InitVersion ==
  /\ vPc = "idle"
  /\ vInput \in [version : VersionInputs, customVersionNames : CustomNameMaps,
                 fs : FileSystems]
  /\ vLocation = None
  /\ vResult = NoVersion
  /\ vError = "none"

VersionReturns(version) ==
  /\ vPc' = "done"
  /\ vResult' = Some(version)
  /\ vError' = "none"

\* fail(message) throws an ApplicationError; crash(message) throws an Error; a
\* rejected promise throws its reason at the await. All leave fromInput without
\* a Version.
VersionThrows(error) ==
  /\ vPc' = "failed"
  /\ vResult' = NoVersion
  /\ vError' = error

\* Version.fromInput(version, state) up to its return, its throw, or its await
\* of getLatestVersion.
FromInput ==
  /\ vPc = "idle"
  /\ LET version == vInput.version
         custom == LookupCustom(vInput.customVersionNames, version)
         family == FamilyOf(version)
     IN IF Truthy(custom)
        THEN IF ~ExistsSync(vInput.fs, custom)
             THEN VersionThrows("fail: Invalid custom version: filepath does not exist")
             ELSE IF IsDirectory(vInput.fs, custom.path)
                  THEN IF HasBuildGradle(vInput.fs, custom.path)
                       THEN VersionReturns(NewVersion(custom.path, TRUE, TRUE, None, None))
                       ELSE VersionThrows("fail: Invalid custom version: no build.gradle")
                  ELSE VersionReturns(NewVersion(custom.path, TRUE, FALSE, None, None))
        ELSE IF family.versionType = None \/ family.versionNumber = None
             THEN VersionThrows("fail: Invalid version")
             ELSE IF family.versionNumber[1] = S_latest
                  THEN /\ vPc' = "awaitingLatest"
                       /\ UNCHANGED <<vResult, vError>>
                  ELSE VersionReturns(FamilyVersion(family.versionType[1],
                                                    family.versionNumber[1],
                                                    family.versionNumber[1]))
  /\ UNCHANGED <<vInput, vLocation>>
  /\ UNCHANGED exceptVersion

\* The request of getLatestVersion is answered and fromInput resumes.
LatestAnswered(res) ==
  /\ vPc = "awaitingLatest"
  /\ LET family == FamilyOf(vInput.version)
         versionType == family.versionType[1]
     IN IF res.kind = "error"
        THEN \* an "error" event nothing listens to: an uncaught exception
             /\ vPc' = "crashed"
             /\ vError' = "uncaught: request error"
             /\ UNCHANGED <<vResult, vLocation>>
        ELSE LET settled == ResolveRedirect(res)
             IN IF settled.settled = "rejected"
                THEN /\ VersionThrows(settled.reason)
                     /\ UNCHANGED vLocation
                ELSE LET resolvedUrl == settled.value[1]
                         result == ExecLatestPattern(versionType, resolvedUrl)
                     IN /\ vLocation' = Some(resolvedUrl)
                        /\ IF result = None
                           THEN VersionThrows("crash: regex did not match resolved url")
                           ELSE VersionReturns(FamilyVersion(versionType,
                                                             family.versionNumber[1],
                                                             result[1]))
  /\ UNCHANGED vInput
  /\ UNCHANGED exceptVersion

NextVersion ==
  \/ FromInput
  \/ \E res \in HttpReplies : LatestAnswered(res)


(***************************************************************************)
(* Version.download                                                        *)
(***************************************************************************)
S_dottmp == <<".", "t", "m", "p">>

\* The versions the launch command downloads: resolved from a family, with a
\* concrete number.
DownloadVersions ==
  {FamilyVersion(F.name, n, n) : F \in {versionUrls[i] : i \in 1..Len(versionUrls)},
                                 n \in {<<"1">>, <<"1", "6">>}}
    \cup {FamilyVersion("vanilla", <<"1", ".", "6">>, <<"1", ".", "6">>)}

\* Versions getDownloadUrl() has no url for: the Version fromInput makes for a
\* custom name (no family, no number), and a family version whose number is
\* still "latest". The class and its methods are exported.
UnresolvedVersions ==
  { NewVersion(P_jar, TRUE, FALSE, None, None),
    NewVersion(PathJoin(folderPath, <<JarName("vanilla", S_latest)>>), FALSE, FALSE,
               Some("vanilla"), Some(S_latest)) }

\* filePath + ".tmp": the text is appended to the last segment of the path.
AppendText(filePath, text) ==
  [filePath EXCEPT ![Len(filePath)] = filePath[Len(filePath)] \o text]

\* A download that streams the body straight to the final path.
DownloadOutputPath_Final(filePath) == filePath

\* The outputPath download() hands to downloadFile.
DownloadOutputPath(filePath) == AppendText(filePath, S_dottmp)

\* What getDownloadUrl() gives for a version: a logic error for a version
\* without family or number or with the number "latest", else the jar name (the
\* url is asked of resolveRedirect).
GetDownloadUrl(version) ==
  IF version.versionType = None \/ version.versionNumber = None
  THEN [crash |-> TRUE, jarName |-> <<>>]
  ELSE IF version.versionNumber[1] = S_latest
       THEN [crash |-> TRUE, jarName |-> <<>>]
       ELSE [crash |-> FALSE,
             jarName |-> JarName(version.versionType[1], version.versionNumber[1])]

\* path.join(state.settings.mindustryJars.folderPath, jarName)
DownloadFilePath(version) == PathJoin(folderPath, <<GetDownloadUrl(version).jarName>>)

\* The paths a download of version reads or writes.
DownloadPaths(version) ==
  {version.path, DownloadFilePath(version), AppendText(DownloadFilePath(version), S_dottmp)}

\* Version.exists(): fs.existsSync(this.jarFilePath())
exists(files, version) == files[jarFilePath(version)] # "absent"

\* What the GET of downloadFile is answered with.
DownloadReplies ==
  [kind : {"response"}, statusCode : {200, 404, 500}] \cup {[kind |-> "error", statusCode |-> 0]}

\* A downloadFile that takes every response for the file.
DownloadFileRejects_Never(res) == FALSE

\* Is the promise of downloadFile rejected in the response callback? (404 and
\* every other status that is not 200; the callback goes on after rejecting.)
DownloadFileRejects(res) == res.statusCode = 404 \/ res.statusCode # 200

InitDownload ==
  /\ dPc = "start"
  /\ dVersion \in DownloadVersions \cup UnresolvedVersions
  /\ dFiles \in {[p \in DownloadPaths(dVersion) |->
                    IF p = AppendText(DownloadFilePath(dVersion), S_dottmp) THEN left
                    ELSE "absent"] : left \in {"absent", "partial"}}
  /\ dRet = "pending"
  /\ dStream = [state |-> "none", statusCode |-> 0, chunks |-> 0]

DownloadReturns(value) ==
  /\ dPc' = "returned"
  /\ dRet' = value

\* An "error" event without a listener: the launcher dies of an uncaught exception.
DownloadCrashes ==
  /\ dPc' = "crashed"
  /\ UNCHANGED dRet

\* download(state) up to the await of resolveRedirect in getDownloadUrl.
DownloadStart ==
  /\ dPc = "start"
  /\ IF GetDownloadUrl(dVersion).crash
     THEN DownloadReturns("false")      \* the catch block of download()
     ELSE /\ dPc' = "awaitingRedirect"
          /\ UNCHANGED dRet
  /\ UNCHANGED <<dVersion, dFiles, dStream, exceptDownload>>

\* resolveRedirect is answered: download() calls downloadFile(url, filePath + ".tmp")
\* or catches the rejection.
DownloadUrlAnswered(res) ==
  /\ dPc = "awaitingRedirect"
  /\ IF res.kind = "error" THEN DownloadCrashes
     ELSE IF ResolveRedirect(res).settled = "rejected" THEN DownloadReturns("false")
     ELSE /\ dPc' = "awaitingResponse"
          /\ UNCHANGED dRet
  /\ UNCHANGED <<dVersion, dFiles, dStream, exceptDownload>>

\* The response callback of downloadFile: reject for a status that is not 200,
\* then, in every case, create the write stream at outputPath and pipe the body
\* into it. A rejected promise makes download() return false.
DownloadResponse(res, opened) ==
  /\ dPc = "awaitingResponse"
  /\ LET outputPath == DownloadOutputPath(DownloadFilePath(dVersion))
     IN IF res.kind = "error"
        THEN /\ DownloadCrashes
             /\ UNCHANGED <<dFiles, dStream>>
        ELSE /\ IF DownloadFileRejects(res) THEN DownloadReturns("false")
                ELSE /\ dPc' = "downloading"
                     /\ UNCHANGED dRet
             /\ IF opened
                THEN /\ dFiles' = [dFiles EXCEPT ![outputPath] = "empty"]
                     /\ dStream' = [state |-> "piping", statusCode |-> res.statusCode,
                                    chunks |-> 0]
                ELSE \* the write stream cannot be opened; its "error" event comes later
                     /\ dStream' = [state |-> "unopened", statusCode |-> res.statusCode,
                                    chunks |-> 0]
                     /\ UNCHANGED dFiles
  /\ UNCHANGED <<dVersion, exceptDownload>>

\* The write stream reports that it could not be opened: nothing listens.
DownloadOpenError ==
  /\ dPc \in {"downloading", "returned"}
  /\ dStream.state = "unopened"
  /\ dPc' = "crashed"
  /\ dStream' = [dStream EXCEPT !.state = "error"]
  /\ UNCHANGED <<dRet, dVersion, dFiles, exceptDownload>>

\* A chunk of the body is written to outputPath.
DownloadChunk ==
  /\ dPc \in {"downloading", "returned"}
  /\ dStream.state = "piping"
  /\ dStream.chunks < MaxChunks
  /\ LET outputPath == DownloadOutputPath(DownloadFilePath(dVersion))
     IN dFiles' = [dFiles EXCEPT ![outputPath] =
                     IF dStream.statusCode = 200 THEN "partial" ELSE "errorBody"]
  /\ dStream' = [dStream EXCEPT !.chunks = @ + 1]
  /\ UNCHANGED <<dPc, dRet, dVersion, exceptDownload>>

\* The body ends and the write stream finishes: resolve("File downloaded!"), which
\* settles the promise only if it was not rejected; download() then awaits rename.
DownloadFinish ==
  /\ dPc \in {"downloading", "returned"}
  /\ dStream.state = "piping"
  /\ LET outputPath == DownloadOutputPath(DownloadFilePath(dVersion))
     IN dFiles' = [dFiles EXCEPT ![outputPath] =
                     IF dStream.statusCode = 200 THEN "complete" ELSE "errorBody"]
  /\ dStream' = [dStream EXCEPT !.state = "finished"]
  /\ dPc' = IF dPc = "downloading" THEN "renaming" ELSE dPc
  /\ UNCHANGED <<dRet, dVersion, exceptDownload>>

\* The connection drops before the body ends: the response never ends, so the
\* write stream never finishes and the promise of downloadFile never settles; by
\* the version of Node the response also emits "error", which nothing listens to.
DownloadAborted(emitsError) ==
  /\ dPc \in {"downloading", "returned"}
  /\ dStream.state = "piping"
  /\ dStream' = [dStream EXCEPT !.state = "aborted"]
  /\ dPc' = IF emitsError THEN "crashed" ELSE dPc
  /\ UNCHANGED <<dRet, dVersion, dFiles, exceptDownload>>

\* await fsP.rename(filePath + ".tmp", filePath): it moves the file, or throws
\* (always when there is no file at filePath + ".tmp") and download() returns false.
DownloadRename(permitted) ==
  /\ dPc = "renaming"
  /\ LET filePath == DownloadFilePath(dVersion)
         from == AppendText(filePath, S_dottmp)
     IN IF permitted /\ dFiles[from] # "absent"
        THEN /\ dFiles' = [dFiles EXCEPT ![filePath] = dFiles[from], ![from] = "absent"]
             /\ DownloadReturns("true")
        ELSE /\ DownloadReturns("false")
             /\ UNCHANGED dFiles
  /\ UNCHANGED <<dVersion, dStream, exceptDownload>>

NextDownload ==
  \/ DownloadStart
  \/ \E res \in HttpReplies : DownloadUrlAnswered(res)
  \/ \E res \in DownloadReplies, opened \in BOOLEAN : DownloadResponse(res, opened)
  \/ DownloadOpenError
  \/ DownloadChunk
  \/ DownloadFinish
  \/ \E emitsError \in BOOLEAN : DownloadAborted(emitsError)
  \/ \E permitted \in BOOLEAN : DownloadRename(permitted)

(***************************************************************************)
(* copyMods: one task per external mod. Every task is started by the map   *)
(* callback; a task runs to its first await on real I/O.                   *)
(***************************************************************************)
ModTypes == {"java", "dir", "file", "invalid"}
ModSyncLists == UNION {[1..n -> ModTypes] : n \in 0..MaxMods}

PendingTask == {"building", "reading", "copying"}
SettledTask == {"done", "failed"}

InitModSync ==
  /\ mMods \in ModSyncLists
  /\ mSettings \in [buildModsConcurrently : BOOLEAN, buildMods : BOOLEAN]
  /\ mTasks = [i \in DOMAIN mMods |-> "notStarted"]
  /\ mPc = "idle"
  /\ mAwaited = 0

\* Where the async callback of a mod can be when it first yields: a java mod
\* awaits the exit of gradle or the directory read, a dir or file mod is copied
\* synchronously (or the copy throws), any other mod has no branch.
TaskStart(type, build) ==
  IF type = "java" THEN {IF build THEN "building" ELSE "reading"}
  ELSE IF type \in {"dir", "file"} THEN {"done", "failed"}
  ELSE {"done"}

\* Where a pending task can be at its next await: gradle exits with 0 or not; the
\* build folder is read (and holds a jar to copy, or none) or cannot be read;
\* fsP.copyFile settles.
TaskNext(pc) ==
  IF pc = "building" THEN {"reading", "failed"}
  ELSE IF pc = "reading" THEN {"copying", "done", "failed"}
  ELSE {"done", "failed"}

\* for (const modTask of modTasks) await modTask, from task k on
RECURSIVE AwaitEach(_, _)
AwaitEach(tasks, k) ==
  IF k > Len(tasks) THEN [pc |-> "resolved", awaited |-> 0]
  ELSE IF tasks[k] = "done" THEN AwaitEach(tasks, k + 1)
  ELSE IF tasks[k] = "failed" THEN [pc |-> "rejected", awaited |-> k]
  ELSE [pc |-> "awaiting", awaited |-> k]

\* await Promise.all(modTasks)
AwaitAll(tasks) ==
  IF \E i \in DOMAIN tasks : tasks[i] = "failed" THEN [pc |-> "rejected", awaited |-> 0]
  ELSE IF \A i \in DOMAIN tasks : tasks[i] = "done" THEN [pc |-> "resolved", awaited |-> 0]
  ELSE [pc |-> "awaiting", awaited |-> 0]

\* The last statement of copyMods, with the tasks as they are now.
AwaitTasks(tasks, from) ==
  IF mSettings.buildModsConcurrently THEN AwaitAll(tasks) ELSE AwaitEach(tasks, from)

\* copyMods(state) is called and runs until it awaits.
CopyModsCall ==
  /\ mPc = "idle"
  /\ \E started \in [DOMAIN mMods -> PendingTask \cup SettledTask] :
       /\ \A i \in DOMAIN mMods : started[i] \in TaskStart(mMods[i], mSettings.buildMods)
       /\ mTasks' = started
       /\ mPc' = AwaitTasks(started, 1).pc
       /\ mAwaited' = AwaitTasks(started, 1).awaited
  /\ UNCHANGED <<mMods, mSettings>>
  /\ UNCHANGED exceptModSync

\* The I/O a task awaits completes and the task runs to its next await; copyMods
\* resumes if that settles what it is awaiting.
ModTaskResumes(i) ==
  /\ i \in DOMAIN mMods
  /\ mTasks[i] \in PendingTask
  /\ \E next \in TaskNext(mTasks[i]) :
       LET tasks == [mTasks EXCEPT ![i] = next]
       IN /\ mTasks' = tasks
          /\ IF mPc = "awaiting"
             THEN /\ mPc' = AwaitTasks(tasks, mAwaited).pc
                  /\ mAwaited' = AwaitTasks(tasks, mAwaited).awaited
             ELSE UNCHANGED <<mPc, mAwaited>>
  /\ UNCHANGED <<mMods, mSettings>>
  /\ UNCHANGED exceptModSync

NextModSync ==
  \/ CopyModsCall
  \/ \E i \in 1..MaxMods : ModTaskResumes(i)

(***************************************************************************)
(* The output of a child: startProcess pipes stdout into the log file and  *)
(* stdout and stderr onto the console. Text is a sequence of characters;   *)
(* what the launcher inserts is a single element each ("[USERNAME]",       *)
(* "<time>", a colour).                                                    *)
(***************************************************************************)
\* The user names of the runs: process.env.USERNAME ?? process.env.USER ?? null
UserNames == {None, Some(<<"j", "o">>)}

RangeOf(f) == {f[i] : i \in DOMAIN f}

\* [a-zA-Z0-9+/]
Base64Chars == RangeOf(UpperCase) \cup RangeOf(LowerCase) \cup Digits \cup {"+", "/"}

\* \w
WordChars == RangeOf(UpperCase) \cup RangeOf(LowerCase) \cup Digits \cup {"_"}

\* /[a-zA-Z0-9+/]{22}==/g
UuidPattern == [kind |-> "uuid", run |-> 22, tail |-> <<"=", "=">>]
\* a string keyword
Keyword(text) == [kind |-> "keyword", text |-> text]

\* The length of the match of pattern in s at index i, 0 when there is none.
MatchAt(s, i, pattern) ==
  IF pattern.kind = "keyword"
  THEN IF Len(pattern.text) > 0 /\ OccursAt(s, pattern.text, i) THEN Len(pattern.text) ELSE 0
  ELSE IF /\ i + pattern.run + Len(pattern.tail) - 1 <= Len(s)
          /\ \A k \in i..(i + pattern.run - 1) : s[k] \in Base64Chars
          /\ OccursAt(s, pattern.tail, i + pattern.run)
       THEN pattern.run + Len(pattern.tail)
       ELSE 0

\* String.prototype.replaceAll(pattern, replace), from index i on
RECURSIVE ReplaceAllFrom(_, _, _, _)
ReplaceAllFrom(s, i, pattern, replace) ==
  IF i > Len(s) THEN <<>>
  ELSE IF MatchAt(s, i, pattern) > 0
       THEN <<replace>> \o ReplaceAllFrom(s, i + MatchAt(s, i, pattern), pattern, replace)
       ELSE <<s[i]>> \o ReplaceAllFrom(s, i + 1, pattern, replace)

\* CensorKeywordTransform._transform: the chunk with every match replaced
CensorKeywordTransform(chunk, pattern, replace) == ReplaceAllFrom(chunk, 1, pattern, replace)

\* Does text hold the keyword?
Holds(text, keyword) == \E i \in 1..Len(text) : OccursAt(text, keyword, i)

\* this._line.split(/\r?\n/): the pieces between the line ends, from index i on,
\* with piece the characters of the current piece read so far.
RECURSIVE SplitLinesFrom(_, _, _)
SplitLinesFrom(s, i, piece) ==
  IF i > Len(s) THEN <<piece>>
  ELSE IF s[i] = "\n" THEN <<piece>> \o SplitLinesFrom(s, i + 1, <<>>)
  ELSE IF s[i] = "\r" /\ i < Len(s) /\ s[i + 1] = "\n"
       THEN <<piece>> \o SplitLinesFrom(s, i + 2, <<>>)
  ELSE SplitLinesFrom(s, i + 1, Append(piece, s[i]))

SplitLines(s) == SplitLinesFrom(s, 1, <<>>)

\* getLogHighlight(char)
GetLogHighlight(char) ==
  IF char = Some("D") THEN "<gray>"
  ELSE IF char = Some("W") THEN "<yellow>"
  ELSE IF char = Some("E") THEN "<red>"
  ELSE "<white>"

\* line[1], undefined for a line of fewer than two characters
SecondChar(line) == IF Len(line) >= 2 THEN Some(line[2]) ELSE None

\* line.match(/^\[\w\]/)
HasLevel(line) == Len(line) >= 3 /\ line[1] = "[" /\ line[2] \in WordChars /\ line[3] = "]"

\* formatLine(line)
FormatLine(line) ==
  <<"<cyan>", "<time>", " ", GetLogHighlight(SecondChar(line))>> \o line \o <<"<reset>">>

\* LoggerHighlightTransform on the lines of one chunk, from line k on: the output
\* and the colour it is left with.
RECURSIVE HighlightFrom(_, _, _)
HighlightFrom(lines, k, colour) ==
  IF k > Len(lines) THEN [out |-> <<>>, colour |-> colour]
  ELSE LET line == lines[k] \o <<"\n">>
           out == IF HasLevel(line) \/ k = 1 THEN FormatLine(line)
                  ELSE <<colour, ":", " ", " ", " ", " ", " ", " ", " ", " ", " ", " ">>
                       \o line \o <<"<reset>">>
           next == IF HasLevel(line) THEN GetLogHighlight(Some(line[2])) ELSE colour
           rest == HighlightFrom(lines, k + 1, next)
       IN [out |-> out \o rest.out, colour |-> rest.colour]

\* prependTextTransform(() => getTimeComponent(false)) on the lines of one chunk
RECURSIVE PrependFrom(_, _)
PrependFrom(lines, k) ==
  IF k > Len(lines) THEN <<>>
  ELSE <<"<time>", " ">> \o lines[k] \o <<"\n">> \o PrependFrom(lines, k + 1)

\* lines.slice(0, -1) and lines.at(-1) of streamTransformState._transform
CompleteLines(buffer, chunk) ==
  LET lines == SplitLines(buffer \o chunk) IN SubSeq(lines, 1, Len(lines) - 1)
LastLine(buffer, chunk) ==
  LET lines == SplitLines(buffer \o chunk) IN lines[Len(lines)]

\* The chunks the child writes in the runs.
OutputChunks ==
  { <<"j", "o", "\n">>, <<"j">>, <<"o", "\n", " ", "j", "o", "\n">>,
    <<"[", "E", "]", " ", "h", "i", "\r", "\n", "x">>,
    <<"A", "A", "A", "A", "A", "A", "A", "A", "A", "A", "A", "A", "A", "A", "A", "A",
      "A", "A", "A", "A", "j", "o", "=", "=", "\n">> }

InitLog ==
  /\ gSettings \in [enabled : BOOLEAN, removeUsername : BOOLEAN, removeUUIDs : BOOLEAN]
  /\ gUsername \in UserNames
  /\ gBuffers = [t \in {"log", "stdout", "stderr"} |-> <<>>]
  /\ gColors = [t \in {"stdout", "stderr"} |-> "<white>"]
  /\ gLogFile = <<>>
  /\ gConsole = <<>>
  /\ gChunks = 0

\* if (removeUsername && state.username != null)
CensorsUsername == gSettings.removeUsername /\ gUsername # None

\* What the pipeline startProcess builds in front of the prepend transform makes
\* of a chunk of stdout: "temp" is proc.stdout, or proc.stdout piped into the
\* username censor, or (assigned last) proc.stdout piped into the UUID censor.
LogPipe(chunk) ==
  IF gSettings.removeUUIDs THEN CensorKeywordTransform(chunk, UuidPattern, "[UUID]")
  ELSE IF CensorsUsername
       THEN CensorKeywordTransform(chunk, Keyword(gUsername[1]), "[USERNAME]")
       ELSE chunk

\* What the console pipeline makes of the highlighted lines of a chunk.
ConsolePipe(text) ==
  IF CensorsUsername
  THEN CensorKeywordTransform(text, Keyword(gUsername[1]), "[USERNAME]")
  ELSE text

\* The child writes a chunk to stdout or stderr and every transform piped from
\* that stream has run.
ChildOutput(stream, chunk) ==
  /\ gChunks < MaxOutputs
  /\ gChunks' = gChunks + 1
  /\ LET toLog == stream = "stdout" /\ gSettings.enabled
         piped == LogPipe(chunk)
         shown == HighlightFrom(CompleteLines(gBuffers[stream], chunk), 1, gColors[stream])
     IN /\ gLogFile' = IF toLog
                       THEN gLogFile \o PrependFrom(CompleteLines(gBuffers["log"], piped), 1)
                       ELSE gLogFile
        /\ gConsole' = gConsole \o ConsolePipe(shown.out)
        /\ gColors' = [gColors EXCEPT ![stream] = shown.colour]
        /\ gBuffers' = [gBuffers EXCEPT
                          !["log"] = IF toLog THEN LastLine(@, piped) ELSE @,
                          ![stream] = LastLine(@, chunk)]
  /\ UNCHANGED <<gSettings, gUsername>>
  /\ UNCHANGED exceptLog

NextLog == \E stream \in {"stdout", "stderr"}, chunk \in OutputChunks : ChildOutput(stream, chunk)

(***************************************************************************)
(* One transform made by streamTransformState, written a text in chunks.   *)
(***************************************************************************)
\* The longest text of the runs over TextChars.
MaxText == 3

TextChars == {"a", "\r", "\n"}

RECURSIVE TextsOf(_)
TextsOf(n) ==
  IF n = 0 THEN {<<>>}
  ELSE TextsOf(n - 1) \cup {t \o <<c>> : t \in TextsOf(n - 1), c \in TextChars}

\* The texts a child writes in the runs: the short ones over TextChars, and lines
\* with a log level.
TransformTexts ==
  TextsOf(MaxText) \cup
  { <<"[", "E", "]", "\n", "x", "\n">>, <<"[", "W", "]", "\r", "\n", "x", "\n", "y">> }

\* What one _transform call pushes for a chunk, and the state it leaves.
TransformChunk(kind, line, state, chunk) ==
  LET lines == CompleteLines(line, chunk)
      shown == HighlightFrom(lines, 1, state)
  IN [out |-> IF kind = "highlight" THEN shown.out ELSE PrependFrom(lines, 1),
      state |-> IF kind = "highlight" THEN shown.colour ELSE state,
      line |-> LastLine(line, chunk)]

\* new LoggerHighlightTransform() or new (prependTextTransform(...))()
InitChunks ==
  /\ kKind \in {"highlight", "prepend"}
  /\ kText \in TransformTexts
  /\ kRest = kText
  /\ kLine = <<>>
  /\ kState = "<white>"
  /\ kOut = <<>>

\* The stream delivers the next n characters as one chunk: _transform(chunk).
TransformWrite(n) ==
  /\ n <= Len(kRest)
  /\ LET did == TransformChunk(kKind, kLine, kState, SubSeq(kRest, 1, n))
     IN /\ kOut' = kOut \o did.out
        /\ kState' = did.state
        /\ kLine' = did.line
  /\ kRest' = SubSeq(kRest, n + 1, Len(kRest))
  /\ UNCHANGED <<kKind, kText>>
  /\ UNCHANGED exceptChunks

NextChunks == \E n \in 1..(MaxText + 5) : TransformWrite(n)

(***************************************************************************)
(* The launch command: Version.fromInput, compileDirectory, the download,  *)
(* copyMods and launch, as its impl strings them together.                 *)
(***************************************************************************)
\* The versions the command is given in the runs.
LaunchVersions == { <<"1">>, S_latest, S_be \o <<"1">>, <<"x">>, S_foo \o <<"1">>, <<"x", "x">> }

NotEnded == [how |-> "none", why |-> "", value |-> 0]

InitLaunchCommand ==
  /\ lPc = "resolving"
  /\ lArgs \in [compile : BOOLEAN, yes : BOOLEAN]
  /\ lResult = NotEnded
  /\ lDid = {}

\* return 1
Returns(why) ==
  /\ lPc' = "returned"
  /\ lResult' = [how |-> "return", why |-> why, value |-> 1]

\* crash(...), or a rejection or exception that passes through the impl
Throws(why) ==
  /\ lPc' = "threw"
  /\ lResult' = [how |-> "throw", why |-> why, value |-> 0]

\* The exit code of the launcher when the impl of a command has ended: the number
\* it returned, 1 when it threw.
ExitCodeOf(result) == IF result.how = "return" THEN result.value ELSE 1

\* await state.version.download(state) is called
StartDownload(version) ==
  /\ lPc' = "downloading"
  /\ lDid' = lDid \cup {"download"}
  /\ UNCHANGED lResult
  /\ dPc' = "start"
  /\ dVersion' = version
  /\ dFiles' = [p \in DownloadPaths(version) \cup {jarFilePath(version)} |-> "absent"]
  /\ dRet' = "pending"
  /\ dStream' = [state |-> "none", statusCode |-> 0, chunks |-> 0]

\* await copyMods(state) is called, present being what exists() returned
StartSync(present) ==
  /\ lPc' = "syncing"
  /\ lDid' = lDid \cup {"copyMods"} \cup (IF present THEN {"jarSeen"} ELSE {})
  /\ UNCHANGED lResult

\* An impl that takes every version for downloaded.
NeedsDownload_Never(present) == FALSE

\* if (!state.version.exists())
NeedsDownload(present) == ~present

\* An impl without the check for a custom version.
RefusesDownload_Never(version) == FALSE

\* if (state.version.isCustom) crash(...)
RefusesDownload(version) == version.isCustom

\* The impl from "if (!state.version.exists())" to its next await, present being
\* what exists() returns.
CheckDownloaded(version, present) ==
  IF ~NeedsDownload(present)
  THEN StartSync(present) /\ UNCHANGED downloadVars
  ELSE IF RefusesDownload(version)
       THEN /\ Throws("Logic error: nonexistent custom version not caught in fromInput")
            /\ UNCHANGED <<lDid, downloadVars>>
       ELSE IF lArgs.yes
            THEN StartDownload(version)
            ELSE /\ lPc' = "asking"
                 /\ UNCHANGED <<lResult, lDid, downloadVars>>

\* The impl from the exists() check of a source directory on, present being
\* what exists() returns there (and again four lines further down).
CheckBuilt(version, present) ==
  IF ~present
  THEN Returns("jar missing") /\ UNCHANGED <<lDid, downloadVars>>
  ELSE CheckDownloaded(version, present)

\* Version.fromInput has returned or thrown and the impl resumes.
LaunchResolved ==
  /\ lPc = "resolving"
  /\ vPc \in {"done", "failed", "crashed"}
  /\ IF vPc = "done"
     THEN LET version == vResult[1]
          IN IF version.isSourceDirectory
             THEN IF lArgs.compile
                  THEN \E descriptor \in BOOLEAN :
                         IF descriptor
                         THEN /\ lPc' = "compiling"
                              /\ UNCHANGED <<lResult, lDid, downloadVars>>
                         ELSE /\ Returns("compile failed")
                              /\ UNCHANGED <<lDid, downloadVars>>
                  ELSE \E present \in BOOLEAN : CheckBuilt(version, present)
             ELSE \E present \in BOOLEAN : CheckDownloaded(version, present)
     ELSE /\ Throws(IF vPc = "failed" THEN "resolution failed" ELSE "uncaught exception")
          /\ UNCHANGED <<lDid, downloadVars>>
  /\ UNCHANGED <<lArgs, supervisorVars, versionVars, modSyncVars, logVars, restVars>>

\* The gradle process of compileDirectory exits and the impl resumes.
LaunchCompiled(ok) ==
  /\ lPc = "compiling"
  /\ IF ok
     THEN \E present \in BOOLEAN : CheckBuilt(vResult[1], present)
     ELSE Returns("compile failed") /\ UNCHANGED <<lDid, downloadVars>>
  /\ UNCHANGED <<lArgs, supervisorVars, versionVars, modSyncVars, logVars, restVars>>

\* askYesOrNo is answered.
LaunchAnswered(yes) ==
  /\ lPc = "asking"
  /\ IF yes
     THEN StartDownload(vResult[1])
     ELSE Returns("download declined") /\ UNCHANGED <<lDid, downloadVars>>
  /\ UNCHANGED <<lArgs, supervisorVars, versionVars, modSyncVars, logVars, restVars>>

\* download() has returned (or its request died of an uncaught "error" event) and
\* the impl resumes.
LaunchDownloaded ==
  /\ lPc = "downloading"
  /\ dPc \in {"returned", "crashed"}
  /\ IF dPc = "crashed"
     THEN Throws("uncaught exception") /\ UNCHANGED lDid
     ELSE IF dRet # "true"
          THEN Returns("download failed") /\ UNCHANGED lDid
          ELSE IF ~exists(dFiles, dVersion)
               THEN Throws("Downloaded file doesn't exist!") /\ UNCHANGED lDid
               ELSE StartSync(TRUE)
  /\ UNCHANGED <<lArgs, supervisorVars, versionVars, downloadVars, modSyncVars, logVars, restVars>>

\* copyMods settles: the impl is about to call launch(state), or copyMods has
\* rejected.
LaunchSynced(ok) ==
  /\ lPc = "syncing"
  /\ IF ok
     THEN lPc' = "launching" /\ UNCHANGED lResult
     ELSE Throws("sync failed")
  /\ UNCHANGED <<lArgs, lDid, supervisorVars, versionVars, downloadVars, modSyncVars,
                 logVars, restVars>>

\* launch(state), the last statement of the impl
LaunchCalled ==
  /\ lPc = "launching"
  /\ Launch

NextLaunchCommand ==
  \/ LaunchResolved
  \/ \E ok \in BOOLEAN : LaunchCompiled(ok)
  \/ \E yes \in BOOLEAN : LaunchAnswered(yes)
  \/ LaunchDownloaded
  \/ \E ok \in BOOLEAN : LaunchSynced(ok)
  \/ LaunchCalled

(***************************************************************************)
(* WindowedMean: the ring buffer behind the download speed.                *)
(***************************************************************************)
\* The largest maxWindowSize and the most calls of add() of a run.
MaxWindow == 2
MaxSamples == 4

\* The values add() is called with, and the milliseconds between two readings of
\* Date.now().
SampleValues == {0, 2, 4}
ClockSteps == {0, 1, 2}

\* Every duration add() can store divides DurationScale: a quotient value /
\* duration is kept as the whole number value * (DurationScale / duration).
DurationScale == 2

\* Math.max(1, n)
AtLeastOne(n) == IF n < 1 THEN 1 ELSE n

NoMean == [called |-> FALSE]
NotEnoughData(w) == [called |-> TRUE, windowSize |-> w, kind |-> "notEnoughData"]

\* A slot choice that counts a negative index from the front.
WrappedSlot_FromFront(i, maxWindowSize) == IF i >= 0 THEN i ELSE (0 - i) - 1

\* The slot the loop of mean() reads for its index i (both zero-based).
WrappedSlot(i, maxWindowSize) == IF i >= 0 THEN i ELSE maxWindowSize + i

\* this.data[slot][0] / this.data[slot][1] for a slot, zero-based: a number, or
\* NaN for the 0 / 0 of a slot that was never written.
Quotient(data, slot) ==
  LET pair == data[slot + 1]
  IN IF pair[2] = 0 THEN [nan |-> TRUE, scaled |-> 0]
     ELSE [nan |-> FALSE, scaled |-> pair[1] * (DurationScale \div pair[2])]

\* The loop of mean(): total after the indices from i on, and the slots read.
RECURSIVE MeanLoop(_, _, _, _, _)
MeanLoop(data, maxWindowSize, i, wrappedQueueI, acc) ==
  IF i >= wrappedQueueI THEN acc
  ELSE LET slot == WrappedSlot(i, maxWindowSize)
           q == Quotient(data, slot)
       IN MeanLoop(data, maxWindowSize, i + 1, wrappedQueueI,
                   [nan |-> acc.nan \/ q.nan,
                    scaled |-> acc.scaled + q.scaled,
                    read |-> acc.read \o <<slot>>])

\* mean(windowSize, notEnoughDataValue): the total divided by windowSize is
\* kept as the fraction total / (DurationScale * windowSize).
Mean(data, queuei, maxWindowSize, windowSize) ==
  IF queuei < windowSize THEN NotEnoughData(windowSize)
  ELSE IF windowSize > maxWindowSize
  THEN [called |-> TRUE, windowSize |-> windowSize, kind |-> "throws"]
  ELSE LET wrappedQueueI == queuei % maxWindowSize
           sum == MeanLoop(data, maxWindowSize, wrappedQueueI - windowSize, wrappedQueueI,
                           [nan |-> FALSE, scaled |-> 0, read |-> <<>>])
       IN [called |-> TRUE, windowSize |-> windowSize,
           kind |-> IF sum.nan \/ windowSize = 0 THEN "NaN" ELSE "number",
           numerator |-> sum.scaled,
           denominator |-> DurationScale * windowSize,
           read |-> sum.read]

\* new WindowedMean(maxWindowSize)
InitMean ==
  /\ sMax \in 1..MaxWindow
  /\ sData = [i \in 1..sMax |-> <<0, 0>>]
  /\ sQueuei = 0
  /\ sLastTime = -1
  /\ sClock = 0
  /\ sAdds = 0
  /\ sHist = <<>>
  /\ sResult = NoMean

\* add(value): Date.now() is read for the duration and again for lastTime.
MeanAdd(value, step, again) ==
  /\ sAdds < MaxSamples
  /\ sAdds' = sAdds + 1
  /\ LET first == sClock + step
         second == first + again
         pair == <<value, AtLeastOne(first - sLastTime)>>
     IN /\ IF sLastTime # -1
           THEN /\ sData' = [sData EXCEPT ![(sQueuei % sMax) + 1] = pair]
                /\ sQueuei' = sQueuei + 1
                /\ sHist' = Append(sHist, pair)
           ELSE UNCHANGED <<sData, sQueuei, sHist>>
        /\ sLastTime' = second
        /\ sClock' = second
  /\ UNCHANGED <<sMax, sResult>>
  /\ UNCHANGED exceptMean

\* mean(windowSize, notEnoughDataValue)
MeanCall(windowSize) ==
  /\ windowSize <= sMax + 1
  /\ sResult' = Mean(sData, sQueuei, sMax, windowSize)
  /\ UNCHANGED <<sMax, sData, sQueuei, sLastTime, sClock, sAdds, sHist>>
  /\ UNCHANGED exceptMean

NextMean ==
  \/ \E value \in SampleValues, step \in ClockSteps, again \in {0, 1} :
       MeanAdd(value, step, again)
  \/ \E windowSize \in 0..(MaxWindow + 1) : MeanCall(windowSize)

(***************************************************************************)
(* The arguments of the child: init() splits opts.positionalArgs, and      *)
(* startProcess builds the argument list of java.                           *)
(***************************************************************************)
\* The longest positional argument list of the runs.
MaxArgs == 3

\* The positional arguments of the runs: the separator and two other words.
ArgWords == {"--", "a", "b"}

RECURSIVE ArgLists(_)
ArgLists(n) ==
  IF n = 0 THEN {<<>>}
  ELSE ArgLists(n - 1) \cup {l \o <<w>> : l \in ArgLists(n - 1), w \in ArgWords}

\* settings.jvmArgs and settings.processArgs
ConfiguredArgs ==
  { [jvmArgs |-> <<>>, processArgs |-> <<>>],
    [jvmArgs |-> <<"j">>, processArgs |-> <<"p">>] }

\* array.includes(word)
Includes(array, word) == \E i \in 1..Len(array) : array[i] = word

\* array.indexOf(word) and array.lastIndexOf(word), zero-based, for an array that
\* includes word
IndexOf(array, word) ==
  (CHOOSE i \in 1..Len(array) :
     array[i] = word /\ \A k \in 1..(i - 1) : array[k] # word) - 1
LastIndexOf(array, word) ==
  (CHOOSE i \in 1..Len(array) :
     array[i] = word /\ \A k \in (i + 1)..Len(array) : array[k] # word) - 1

\* array.slice(start, end) for 0 <= start and 0 <= end: the elements at the
\* zero-based indices start .. end - 1
Slice(array, start, end) ==
  SubSeq(array, start + 1, IF end > Len(array) THEN Len(array) ELSE end)

\* init(): jvmArgs and mindustryArgs from opts.positionalArgs
SplitPositional(positionalArgs) ==
  IF Includes(positionalArgs, "--")
  THEN [jvmArgs |-> Slice(positionalArgs, IndexOf(positionalArgs, "--") + 1,
                          LastIndexOf(positionalArgs, "--")),
        mindustryArgs |-> Slice(positionalArgs, LastIndexOf(positionalArgs, "--") + 1,
                                Len(positionalArgs))]
  ELSE [jvmArgs |-> <<>>, mindustryArgs |-> positionalArgs]

InitArgs ==
  /\ aPositional \in ArgLists(MaxArgs)
  /\ aConfigured \in ConfiguredArgs
  /\ aState = None
  /\ aArgv = None

\* init(opts, app): the state it returns
ArgsInit ==
  /\ aState = None
  /\ aState' = Some([mindustryArgs |-> aConfigured.processArgs
                                         \o SplitPositional(aPositional).mindustryArgs,
                     jvmArgs |-> aConfigured.jvmArgs
                                   \o SplitPositional(aPositional).jvmArgs])
  /\ UNCHANGED <<aPositional, aConfigured, aArgv, exceptArgs>>

\* startProcess(state): spawn("java", [...jvmArgs, "-jar", jarFilePath, ...mindustryArgs])
ArgsSpawn ==
  /\ aState # None
  /\ aArgv = None
  /\ aArgv' = Some(aState[1].jvmArgs \o <<"-jar", "<jarFilePath>">> \o aState[1].mindustryArgs)
  /\ UNCHANGED <<aPositional, aConfigured, aState, exceptArgs>>

NextArgs == ArgsInit \/ ArgsSpawn

(***************************************************************************)
(* Specifications: each part of the launcher on its own, and the launch    *)
(* command with the version resolver and the download.                     *)
(***************************************************************************)
\* The supervisor of a run whose version is resolved already.
SupervisorAtRest ==
  /\ launcher = "starting"
  /\ exitCode = 0
  /\ exitCause = "none"
  /\ exitProc = NoProc
  /\ exitStatus = [signal |-> FALSE, code |-> 0]
  /\ procs = [p \in ProcIds |-> UnbornProc]
  /\ nProcs = 0
  /\ mindustryProcess = NoProc
  /\ buildMods = FALSE
  /\ restarts = [r \in RestartIds |-> IdleRestart]
  /\ nRestarts = 0
  /\ settings = [isSourceDirectory |-> FALSE, externalMods |-> <<>>,
                 restartAutomaticallyOnModUpdate |-> FALSE]
  /\ notifications = 0
  /\ commandOutput = NoOutput

\* No version is being resolved.
VersionAtRest ==
  /\ vPc = "done"
  /\ vInput = [version |-> <<>>, customVersionNames |-> [n \in {} |-> P_none],
               fs |-> [p \in CustomPaths |-> "missing"]]
  /\ vLocation = None
  /\ vResult = NoVersion
  /\ vError = "none"

\* No download is running.
DownloadAtRest ==
  /\ dPc = "returned"
  /\ dVersion = FamilyVersion("vanilla", <<"1">>, <<"1">>)
  /\ dFiles = [p \in DownloadPaths(dVersion) |-> "absent"]
  /\ dRet = "pending"
  /\ dStream = [state |-> "none", statusCode |-> 0, chunks |-> 0]

\* resolveRedirect is not modelled call by call.
RedirectAtRest ==
  /\ rUrl = [family |-> "vanilla", of |-> "latest"]
  /\ rGets = 0
  /\ rReply = NoReply
  /\ rPromise = PendingPromise

\* init() has not run.
ArgsAtRest ==
  /\ aPositional = <<>>
  /\ aConfigured = [jvmArgs |-> <<>>, processArgs |-> <<>>]
  /\ aState = None
  /\ aArgv = None

\* No registry is being scanned.
RegistryAtRest ==
  /\ fRegistry = <<>>
  /\ fVersion = <<>>
  /\ fFound = None

\* The clock is not followed.
ClockAtRest == now = 0

\* The changes of the watched paths are not followed.
WatchAtRest == wExternal = 0 /\ wWrote = {}

\* launch() has not run: no listener is registered.
NoHandlers == hStdin = 0 /\ hWatch = 0

\* No text is fed to a transform on its own.
ChunksAtRest ==
  /\ kKind = "none"
  /\ kText = <<>>
  /\ kRest = <<>>
  /\ kLine = <<>>
  /\ kState = "<white>"
  /\ kOut = <<>>

\* No WindowedMean has been constructed.
MeanAtRest ==
  /\ sMax = 0
  /\ sData = <<>>
  /\ sQueuei = 0
  /\ sLastTime = -1
  /\ sClock = 0
  /\ sAdds = 0
  /\ sHist = <<>>
  /\ sResult = NoMean

\* The parts that are modelled on their own are not running.
RestAtRest ==
  /\ RedirectAtRest /\ ArgsAtRest /\ RegistryAtRest /\ ClockAtRest /\ WatchAtRest
  /\ NoHandlers /\ MeanAtRest /\ ChunksAtRest

\* copyMods has not been called.
ModSyncAtRest ==
  /\ mMods = <<>>
  /\ mSettings = [buildModsConcurrently |-> FALSE, buildMods |-> FALSE]
  /\ mTasks = <<>>
  /\ mPc = "idle"
  /\ mAwaited = 0

\* No child has written anything.
LogAtRest ==
  /\ gSettings = [enabled |-> FALSE, removeUsername |-> FALSE, removeUUIDs |-> FALSE]
  /\ gUsername = None
  /\ gBuffers = [t \in {"log", "stdout", "stderr"} |-> <<>>]
  /\ gColors = [t \in {"stdout", "stderr"} |-> "<white>"]
  /\ gLogFile = <<>>
  /\ gConsole = <<>>
  /\ gChunks = 0

\* The launch command has called launch(state).
LaunchAtRest ==
  /\ lPc = "launching"
  /\ lArgs = [compile |-> FALSE, yes |-> FALSE]
  /\ lResult = NotEnded
  /\ lDid = {"jarSeen", "copyMods"}

\* The impl of no command is running.
NoCommand ==
  /\ lPc = "none"
  /\ lArgs = [compile |-> FALSE, yes |-> FALSE]
  /\ lResult = NotEnded
  /\ lDid = {}

Init ==
  /\ InitSupervisor
  /\ VersionAtRest
  /\ DownloadAtRest
  /\ ModSyncAtRest
  /\ LogAtRest
  /\ LaunchAtRest
  /\ RestAtRest
Next == NextSupervisor
Spec == Init /\ [][Next]_vars

\* The supervisor on a source directory with a java mod, where a restart awaits
\* the compile step and copyMods, when both terminate successfully: a gradle
\* process that is awaited exits with code 0 and a copyMods that is awaited
\* resolves, unless the launcher ends first. Nothing makes a child exit.
InitLive ==
  /\ Init
  /\ settings.isSourceDirectory
  /\ HasJavaMod(settings.externalMods)
RestartsTerminate ==
  \A r \in RestartIds : WF_vars(CompileDone(r, TRUE)) /\ WF_vars(CopyModsDone(r))
SpecLive == InitLive /\ [][Next]_vars /\ RestartsTerminate

\* The supervisor with a java mod and automatic restarts, the watched paths being
\* followed on disk; no command is typed.
InitWatch ==
  /\ Init
  /\ settings.restartAutomaticallyOnModUpdate
  /\ HasJavaMod(settings.externalMods)
NextWatch ==
  \/ Launch
  \/ ExternalChange
  \/ WatchPoll
  \/ \E r \in RestartIds : GradleWrites(r)
  \/ \E r \in RestartIds : CopyModsDone(r)
  \/ \E r \in RestartIds : CopyModsFail(r)
  \/ \E p \in ProcIds, status \in ExitStatuses : ChildExit(p, status)
SpecWatch == InitWatch /\ [][NextWatch]_vars

\* The command handler, on a source directory without external mods.
InitCommands ==
  /\ InitSupervisor
  /\ settings = [isSourceDirectory |-> TRUE, externalMods |-> <<>>,
                 restartAutomaticallyOnModUpdate |-> FALSE]
  /\ buildMods = FALSE
  /\ VersionAtRest
  /\ DownloadAtRest
  /\ ModSyncAtRest
  /\ LogAtRest
  /\ LaunchAtRest
  /\ RestAtRest
NextCommands ==
  \/ Launch
  \/ \E data \in StdinChunks : StdinData(data)
  \/ \E r \in RestartIds, ok \in BOOLEAN : CompileDone(r, ok)
  \/ \E p \in ProcIds, status \in ExitStatuses : ChildExit(p, status)
SpecCommands == InitCommands /\ [][NextCommands]_vars

\* restart() as a function of its two flags.
InitRestartCalls == Init
NextRestartCalls ==
  \/ Launch
  \/ \E build \in BOOLEAN, compile \in BOOLEAN : RestartCall(build, compile)
  \/ \E r \in RestartIds, ok \in BOOLEAN : CompileDone(r, ok)
  \/ \E r \in RestartIds : CopyModsDone(r)
  \/ \E r \in RestartIds : CopyModsFail(r)
  \/ \E p \in ProcIds, status \in ExitStatuses : ChildExit(p, status)
SpecRestartCalls == InitRestartCalls /\ [][NextRestartCalls]_vars

\* The supervisor of a packaged jar without external mods, with the wall clock.
\* Without external mods copyMods has nothing to wait for: a restart spawns in the
\* turn of the event loop that began it.
InitLogFiles ==
  /\ InitSupervisor
  /\ settings = [isSourceDirectory |-> FALSE, externalMods |-> <<>>,
                 restartAutomaticallyOnModUpdate |-> FALSE]
  /\ buildMods = FALSE
  /\ VersionAtRest
  /\ DownloadAtRest
  /\ ModSyncAtRest
  /\ gSettings \in [enabled : BOOLEAN, removeUsername : {FALSE}, removeUUIDs : {FALSE}]
  /\ gUsername = None
  /\ gBuffers = [t \in {"log", "stdout", "stderr"} |-> <<>>]
  /\ gColors = [t \in {"stdout", "stderr"} |-> "<white>"]
  /\ gLogFile = <<>>
  /\ gConsole = <<>>
  /\ gChunks = 0
  /\ LaunchAtRest
  /\ RedirectAtRest /\ ArgsAtRest /\ RegistryAtRest /\ WatchAtRest /\ NoHandlers
  /\ MeanAtRest /\ ChunksAtRest
  /\ now \in ClockStarts
NextLogFiles ==
  \/ Launch
  \/ \E data \in SupervisorChunks : StdinData(data)
  \/ \E p \in ProcIds, status \in ExitStatuses : ChildExit(p, status)
  \/ Tick
SpecLogFiles == InitLogFiles /\ [][NextLogFiles]_vars

\* The supervisor from the await of copyMods in the impl of the launch command on.
InitRun ==
  /\ InitSupervisor
  /\ VersionAtRest
  /\ DownloadAtRest
  /\ ModSyncAtRest
  /\ LogAtRest
  /\ lPc = "syncing"
  /\ lArgs = [compile |-> FALSE, yes |-> FALSE]
  /\ lResult = NotEnded
  /\ lDid = {"jarSeen", "copyMods"}
  /\ RestAtRest
NextRun ==
  \/ \E ok \in BOOLEAN : LaunchSynced(ok)
  \/ LaunchCalled
  \/ \E data \in SupervisorChunks : StdinData(data)
  \/ FileWatch
  \/ \E r \in RestartIds, ok \in BOOLEAN : CompileDone(r, ok)
  \/ \E r \in RestartIds : CopyModsDone(r)
  \/ \E r \in RestartIds : CopyModsFail(r)
  \/ \E p \in ProcIds, status \in ExitStatuses : ChildExit(p, status)
SpecRun == InitRun /\ [][NextRun]_vars

InitResolve ==
  InitVersion /\ SupervisorAtRest /\ DownloadAtRest /\ ModSyncAtRest /\ LogAtRest
  /\ NoCommand /\ RestAtRest
NextResolve == NextVersion
SpecResolve == InitResolve /\ [][NextResolve]_vars

InitDownloading ==
  InitDownload /\ SupervisorAtRest /\ VersionAtRest /\ ModSyncAtRest /\ LogAtRest
  /\ NoCommand /\ RestAtRest
NextDownloading == NextDownload
SpecDownload == InitDownloading /\ [][NextDownloading]_vars

InitModSyncing ==
  InitModSync /\ SupervisorAtRest /\ VersionAtRest /\ DownloadAtRest /\ LogAtRest
  /\ NoCommand /\ RestAtRest
NextModSyncing == NextModSync
SpecModSync == InitModSyncing /\ [][NextModSyncing]_vars

InitLogging ==
  InitLog /\ SupervisorAtRest /\ VersionAtRest /\ DownloadAtRest /\ ModSyncAtRest
  /\ NoCommand /\ RestAtRest
NextLogging == NextLog
SpecLog == InitLogging /\ [][NextLogging]_vars

InitLaunching ==
  /\ InitLaunchCommand
  /\ InitVersion
  /\ vInput.version \in LaunchVersions
  /\ SupervisorAtRest
  /\ DownloadAtRest
  /\ ModSyncAtRest
  /\ LogAtRest
  /\ RestAtRest
NextLaunching == NextLaunchCommand \/ NextVersion \/ NextDownload
SpecLaunch == InitLaunching /\ [][NextLaunching]_vars

AllAtRest ==
  /\ SupervisorAtRest /\ VersionAtRest /\ DownloadAtRest /\ ModSyncAtRest /\ LogAtRest
  /\ NoCommand

InitRedirecting ==
  InitRedirect /\ AllAtRest /\ ArgsAtRest /\ RegistryAtRest /\ ClockAtRest /\ WatchAtRest
  /\ NoHandlers /\ MeanAtRest /\ ChunksAtRest
NextRedirecting == NextRedirect
SpecRedirect == InitRedirecting /\ [][NextRedirecting]_vars

InitScanning ==
  InitRegistry /\ AllAtRest /\ RedirectAtRest /\ ArgsAtRest /\ ClockAtRest /\ WatchAtRest
  /\ NoHandlers /\ MeanAtRest /\ ChunksAtRest
NextScanning == NextRegistry
SpecRegistry == InitScanning /\ [][NextScanning]_vars

InitMeans == InitMean /\ AllAtRest /\ RedirectAtRest /\ ArgsAtRest /\ RegistryAtRest
  /\ ClockAtRest /\ WatchAtRest /\ NoHandlers /\ ChunksAtRest
NextMeans == NextMean
SpecMean == InitMeans /\ [][NextMeans]_vars

InitTransform ==
  InitChunks /\ AllAtRest /\ RedirectAtRest /\ ArgsAtRest /\ RegistryAtRest
  /\ ClockAtRest /\ WatchAtRest /\ NoHandlers /\ MeanAtRest
NextTransform == NextChunks
SpecChunks == InitTransform /\ [][NextTransform]_vars

InitArguments ==
  InitArgs /\ AllAtRest /\ RedirectAtRest /\ RegistryAtRest /\ ClockAtRest /\ WatchAtRest
  /\ NoHandlers /\ MeanAtRest /\ ChunksAtRest
NextArguments == NextArgs
SpecArgs == InitArguments /\ [][NextArguments]_vars

(***************************************************************************)
(* Properties of the process supervisor                                    *)
(***************************************************************************)
Started(r) == r \in RestartIds /\ restarts[r].pc # "idle"

\* C1: whenever a restart() call completes, the state tracks a child handle and
\* no other spawned child still has listeners attached, also when restarts overlap.
C1_RestartLeavesOneOwnedHandle ==
  [][\A r \in RestartIds :
       (restarts[r].pc # "done" /\ restarts'[r].pc = "done")
         => /\ mindustryProcess' # NoProc
            /\ \A p \in ProcIds :
                 (p <= nProcs' /\ p # mindustryProcess') => ~procs'[p].listeners]_vars

\* C2: in every reachable state at most one spawned child has the exit handler
\* attached.
C2_AtMostOneOwnedChild ==
  Cardinality({p \in ProcIds : procs[p].listeners}) <= 1

\* C3: from the moment a restart has begun (so in particular before and after it
\* spawns the replacement) its old child is signalled and has no listeners, and
\* the exit handler that ended the launcher never belonged to a child some restart
\* replaced or signalled.
C3_OldChildDetachedBeforeSpawn ==
  /\ \A r \in RestartIds :
       (Started(r) /\ restarts[r].old # NoProc)
         => /\ procs[restarts[r].old].signalled
            /\ ~procs[restarts[r].old].listeners
            /\ (restarts[r].spawned # NoProc => restarts[r].spawned > restarts[r].old)
  /\ \A p \in ProcIds : procs[p].signalled => ~procs[p].listeners
  /\ exitCause = "childExit"
       => /\ ~procs[exitProc].signalled
          /\ \A r \in RestartIds : restarts[r].old # exitProc

\* C3 witness: a restart replaced a child, finished, and the old child has since
\* exited while the launcher keeps running.
C3_Witness ==
  \E r \in RestartIds :
    /\ restarts[r].pc = "done"
    /\ restarts[r].old # NoProc
    /\ ~procs[restarts[r].old].alive
    /\ procs[restarts[r].spawned].alive
    /\ launcher = "running"

C10_SyncRebuildsIffRequested ==
  \A r \in RestartIds :
    restarts[r].synced # "notyet" => ((restarts[r].synced = "build") <=> restarts[r].build)

\* C11: whenever a mod build or mod copy fails during a restart, the launcher
\* keeps running and still tracks the child it tracked before that restart, alive
\* and with its exit handler attached.
C11_FailedSyncKeepsPreviousState ==
  [][\A r \in RestartIds :
       (/\ restarts[r].pc # "failed"
        /\ restarts'[r].pc = "failed"
        /\ restarts'[r].compiled # "failed")
         => /\ launcher' = "running"
            /\ mindustryProcess' # NoProc
            /\ mindustryProcess' = restarts'[r].old
            /\ procs'[mindustryProcess'].alive
            /\ procs'[mindustryProcess'].listeners]_vars

\* C12: a restart that asked for a compile of a source directory and whose compile
\* failed has ended the launcher with exit code 1, and no Mod Sync ran and no
\* replacement child was spawned for it.
C12_FailedCompileEndsLauncher ==
  \A r \in RestartIds :
    restarts[r].compiled = "failed"
      => /\ restarts[r].compile
         /\ settings.isSourceDirectory
         /\ launcher = "exited"
         /\ exitCode = 1
         /\ exitCause = "compileFailed"
         /\ restarts[r].synced = "notyet"
         /\ restarts[r].spawned = NoProc
         /\ \A p \in ProcIds : procs[p].spawnedBy # r

\* C12 witness: the gradle build of a recompile that replaced a running child
\* failed.
C12_Witness ==
  \E r \in RestartIds :
    /\ restarts[r].compiled = "failed"
    /\ restarts[r].old # NoProc
    /\ launcher = "exited"

WatchRestarts == {r \in RestartIds : restarts[r].by = "watch"}

\* C15: with restartAutomaticallyOnModUpdate set, the restarts the watchers have
\* called are as many as the change notifications, and each is
\* restart(state, true, false); with the setting off no change of a mod path
\* calls restart.
C15_OneRestartPerNotification ==
  /\ \A r \in WatchRestarts : Started(r) /\ restarts[r].build /\ ~restarts[r].compile
  /\ IF settings.restartAutomaticallyOnModUpdate
     THEN Cardinality(WatchRestarts) = notifications
     ELSE WatchRestarts = {}

\* C15 witness: two notifications arrived with the setting on, the second while
\* the restart of the first was still in flight.
C15_Witness ==
  /\ settings.restartAutomaticallyOnModUpdate
  /\ notifications = 2
  /\ \E r \in WatchRestarts : restarts[r].pc = "copying"


\* White space as the text of the claim has it.
WhiteSpace == {" ", "\t", "\r", "\n"}

\* The first white-space-delimited token of a line, <<>> when it has none.
FirstToken(line) ==
  LET starts == {i \in 1..Len(line) : line[i] \notin WhiteSpace}
  IN IF starts = {} THEN <<>>
     ELSE LET a == CHOOSE i \in starts : \A j \in starts : i <= j
              ends == {i \in a..Len(line) : i = Len(line) \/ line[i + 1] \in WhiteSpace}
              b == CHOOSE i \in ends : \A j \in ends : i <= j
          IN SubSeq(line, a, b)

\* What a step shows of the branch handleCommand took.
Dispatched(branch) ==
  LET r == nRestarts'
      called(build, compile) ==
        /\ nRestarts' = nRestarts + 1
        /\ restarts'[r].by = "command"
        /\ restarts'[r].build = build
        /\ restarts'[r].compile = compile
  IN CASE branch = "restart" -> called(FALSE, FALSE)
       [] branch = "rebuild" -> called(TRUE, FALSE)
       [] branch = "recompile" -> called(FALSE, TRUE)
       [] branch = "help" -> nRestarts' = nRestarts /\ commandOutput'.log # ""
                             /\ commandOutput'.log # "Unknown command."
                             /\ launcher' = "running"
       [] branch = "exit" -> exitCause' = "exitCommand"
       [] branch = "pass" -> \/ commandOutput'.to # NoProc
                             \/ commandOutput'.log = "Error: Stream not writeable."
       [] OTHER -> commandOutput'.log = "Unknown command."

\* C16: every line handleCommand is given is dispatched on its first
\* white-space-delimited token, compared without regard to case.
C16_DispatchOnFirstToken ==
  [][\A data \in StdinChunks :
       StdinData(data)
         => Dispatched(CommandBranch(ToLowerCase(FirstToken(StripLineEnd(data)))))]_vars

\* The command token of a line, the text up to its first space, and what follows
\* the space after the token.
TokenOf(line) ==
  LET plain == {k \in 0..Len(line) : \A i \in 1..k : line[i] # " "}
  IN SubSeq(line, 1, CHOOSE k \in plain : \A j \in plain : j <= k)
RemainderOf(line) ==
  IF TokenOf(line) = line THEN <<>>
  ELSE CHOOSE rest \in {SubSeq(line, i, Len(line)) : i \in 1..(Len(line) + 1)} :
         line = TokenOf(line) \o <<" ">> \o rest

IsPass(data) == ToLowerCase(TokenOf(StripLineEnd(data))) \in {<<"p", "a", "s", "s">>, <<"p">>, <<"-">>}

\* C34: the pass command writes what follows the command token on the line, with
\* its case and spacing, and a line end after it, to the stdin of the tracked child
\* when that is writable; with no tracked child (as during a restart) or a stdin
\* that is not writable it writes nothing and logs an error.
C34_PassForwardsRemainder ==
  [][\A data \in StdinChunks :
       (IsPass(data) /\ StdinData(data))
         => /\ UNCHANGED <<launcher, procs, nProcs, mindustryProcess, restarts, nRestarts>>
            /\ IF mindustryProcess # NoProc /\ procs[mindustryProcess].alive
               THEN /\ commandOutput'.to = mindustryProcess
                    /\ commandOutput'.wrote
                         = Some(RemainderOf(StripLineEnd(data)) \o <<"\r", "\n">>)
                    /\ commandOutput'.log = ""
               ELSE /\ commandOutput'.wrote = None
                    /\ commandOutput'.to = NoProc
                    /\ commandOutput'.log = "Error: Stream not writeable."]_vars

\* Text with capitals and two spaces in a row has been passed to the tracked child.
C34_Witness ==
  /\ launcher = "running"
  /\ mindustryProcess # NoProc
  /\ commandOutput.to = mindustryProcess
  /\ commandOutput.wrote = Some(<<"H", " ", " ", "i", "\r", "\n">>)

IsUnknown(data) == CommandBranch(CommandWord(StripLineEnd(data))) = "unknown"

\* C17: handling a line whose command word is none of the recognised ones logs
\* "Unknown command." and changes nothing else: no restart is called, the launcher
\* does not exit, no child is signalled or spawned, nothing is written to a child.
C17_UnknownCommandChangesNothing ==
  [][\A data \in StdinChunks :
       (IsUnknown(data) /\ StdinData(data))
         => /\ commandOutput' = Logged("Unknown command.")
            /\ UNCHANGED <<launcher, exitCode, exitCause, exitProc, exitStatus, procs,
                           nProcs, mindustryProcess, buildMods, restarts, nRestarts,
                           settings, notifications>>]_vars

\* C17 witness: an unknown command was handled while a restart was in flight.
C17_Witness ==
  /\ commandOutput = Logged("Unknown command.")
  /\ launcher = "running"
  /\ \E r \in RestartIds : restarts[r].pc = "compiling"

\* C18: once the exit command has been handled the launcher has exited with code
\* 0, the tracked child has been signalled and has no exit handler left, and no
\* exit handler has run.
C18_ExitCommandEndsWithZero ==
  exitCause = "exitCommand"
    => /\ launcher = "exited"
       /\ exitCode = 0
       /\ exitProc = NoProc
       /\ commandOutput = Logged("Exiting...")
       /\ mindustryProcess # NoProc
            => /\ procs[mindustryProcess].signalled
               /\ ~procs[mindustryProcess].listeners

\* C18 witness: the exit command was handled while a child was tracked and alive.
C18_Witness ==
  /\ exitCause = "exitCommand"
  /\ mindustryProcess # NoProc
  /\ procs[mindustryProcess].alive

\* C24: a child is spawned by launch() only after the copyMods call of the launch
\* command has resolved, and by a restart only after the copyMods call of that
\* restart has resolved: the restart is past its await when its child exists.
C24_SpawnAfterModSync ==
  /\ nProcs > 0 => (lPc = "launching" /\ "copyMods" \in lDid)
  /\ \A p \in ProcIds :
       (p <= nProcs /\ procs[p].spawnedBy # 0)
         => /\ restarts[procs[p].spawnedBy].pc = "done"
            /\ restarts[procs[p].spawnedBy].synced # "notyet"
            /\ restarts[procs[p].spawnedBy].spawned = p

\* C24 witness: a restart waited for the build of a java mod and then spawned its
\* child.
C24_Witness ==
  \E r \in RestartIds :
    /\ HasJavaMod(settings.externalMods)
    /\ restarts[r].pc = "done"
    /\ restarts[r].synced = "build"
    /\ procs[restarts[r].spawned].spawnedBy = r

\* The states of the supervisor: a restart is in progress between the call of
\* restart() and its return.
Restarting == \E r \in RestartIds : restarts[r].pc \in {"compiling", "copying"}
Running == launcher = "running" /\ ~Restarting

\* C25: before the first child is spawned no command and no file change is
\* processed and the launcher does not exit by a command; a restart begins only
\* when the supervisor is running and no restart is in progress; and nothing
\* changes once the launcher has exited.
C25_SupervisorStateMachine ==
  [][/\ launcher = "starting"
          => /\ nRestarts' = nRestarts
             /\ commandOutput' = commandOutput
             /\ notifications' = notifications
             /\ launcher' \in {"starting", "running"}
             /\ launcher' = "running" => nProcs' = 1
     /\ nRestarts' # nRestarts => Running
     /\ launcher = "exited" => UNCHANGED supervisorVars]_vars

\* A restart that was called with build and compile both true.
BothFlags(r) == Started(r) /\ restarts[r].build /\ restarts[r].compile

C32_RestartDoesNotAwaitOldChild ==
  \A r \in RestartIds :
    (restarts[r].pc \in {"compiling", "copying"})
      ~> \/ /\ restarts[r].pc = "done"
            /\ mindustryProcess = restarts[r].spawned
            /\ procs[mindustryProcess].spawnedBy = r
         \/ restarts[r].pc = "failed"
         \/ launcher = "exited"

\* A restart has ended with its new child tracked while the child it signalled
\* is still alive.
C32_Witness ==
  \E r \in RestartIds :
    /\ restarts[r].pc = "done"
    /\ restarts[r].old # NoProc
    /\ procs[restarts[r].old].alive
    /\ restarts[r].compiled = "ok"
    /\ mindustryProcess = restarts[r].spawned
    /\ launcher = "running"

C35_HandlersRegisteredOnce ==
  [][/\ hStdin' = IF launcher' = "starting" THEN 0 ELSE 1
     /\ hWatch' = IF launcher' = "starting" \/ ~settings'.restartAutomaticallyOnModUpdate
                  THEN 0
                  ELSE Cardinality({i \in 1..Len(settings'.externalMods) :
                                      settings'.externalMods[i] # "invalid"})
     /\ (nRestarts' # nRestarts /\ notifications' = notifications)
          => nRestarts' = nRestarts + 1
     /\ (notifications' # notifications /\ hWatch > 0)
          => /\ notifications' = notifications + 1
             /\ nRestarts' = nRestarts + 1]_vars

\* Two restarts have been called, by a command and by a watcher, and the
\* listeners are those of launch().
C35_Witness ==
  /\ nRestarts = 2
  /\ \E r, q \in RestartIds : restarts[r].by = "command" /\ restarts[q].by = "watch"
  /\ hStdin = 1
  /\ hWatch = 2

\* C36: no command and no file-watch callback calls restart with rebuildMods and
\* recompile both true.
C36_NoCallerPassesBothFlags ==
  \A r \in RestartIds :
    restarts[r].by \in {"command", "watch"} => ~(restarts[r].build /\ restarts[r].compile)

\* A command has restarted with recompile and a watcher with rebuildMods.
C36_Witness ==
  \E r, q \in RestartIds :
    /\ restarts[r].by = "command" /\ restarts[r].compile /\ ~restarts[r].build
    /\ restarts[q].by = "watch" /\ restarts[q].build /\ ~restarts[q].compile

(***************************************************************************)
(* Properties of the line transforms                                       *)
(***************************************************************************)
\* What a transform pushes when the whole text arrives as one chunk.
WholeOutput(kind, text) == TransformChunk(kind, <<>>, "<white>", text)

\* C38: a line transform pushes the same text however the stream is cut into
\* chunks: once the whole text has been written, the output is that of the text
\* written as one chunk, each complete line once and in order, and the unfinished
\* last line is still buffered.
C38_OutputIndependentOfChunks ==
  kRest = <<>>
    => /\ kOut = WholeOutput(kKind, kText).out
       /\ kLine = WholeOutput(kKind, kText).line

(***************************************************************************)
(* Properties of WindowedMean                                              *)
(***************************************************************************)
\* The sum of value / duration over stored pairs, times DurationScale.
RECURSIVE SumOfRates(_)
SumOfRates(pairs) ==
  IF pairs = <<>> THEN 0
  ELSE Head(pairs)[1] * (DurationScale \div Head(pairs)[2]) + SumOfRates(Tail(pairs))

\* The last n of a sequence.
LastOf(seq, n) == SubSeq(seq, Len(seq) - n + 1, Len(seq))

\* C37: the first add() stores nothing; mean(w) for a window of 1 to maxWindowSize
\* samples returns the not-enough-data value while fewer than w samples have been
\* stored, and otherwise the average of the w samples stored last; it reads only
\* slots add() has written, whose durations are at least 1.
C37_MeanOfLastSamples ==
  [][/\ sQueuei' = Len(sHist')
     /\ sAdds' > 0 => Len(sHist') = sAdds' - 1
     /\ \A i \in 1..Len(sHist') : sHist'[i][2] >= 1
     /\ \A w \in 1..sMax :
          MeanCall(w)
            => IF Len(sHist) < w
               THEN sResult' = NotEnoughData(w)
               ELSE /\ sResult'.kind = "number"
                    /\ sResult'.numerator = SumOfRates(LastOf(sHist, w))
                    /\ sResult'.denominator = DurationScale * w
                    /\ Len(sResult'.read) = w
                    /\ \A k \in 1..w :
                         /\ sResult'.read[k] < Len(sHist)
                         /\ sData[sResult'.read[k] + 1] = LastOf(sHist, w)[k]]_vars

\* The buffer has wrapped and the mean over the whole window, read across the
\* wrap, has been returned.
C37_Witness ==
  /\ sMax = 2
  /\ sQueuei = 3
  /\ sResult.called
  /\ sResult.windowSize = 2
  /\ sResult.kind = "number"
  /\ sResult.read = <<1, 0>>
  /\ sResult.numerator = 6

(***************************************************************************)
(* Properties of copyMods and of the output pipelines                      *)
(***************************************************************************)
\* C13: with buildModsConcurrently off, the task of a mod has not started before
\* the task of every mod ahead of it in the list has finished.
C13_ModsOneAfterTheOther ==
  ~mSettings.buildModsConcurrently
    => \A i, j \in DOMAIN mMods :
         (i < j /\ mTasks[j] # "notStarted") => mTasks[i] \in SettledTask

\* C14: with removeUsername on and the username known, neither the log file nor
\* the console holds the username, whatever the other logging settings are.
C14_UsernameNeverWritten ==
  CensorsUsername
    => /\ ~Holds(gLogFile, gUsername[1])
       /\ ~Holds(gConsole, gUsername[1])

(***************************************************************************)
(* Properties of resolveRedirect                                           *)
(***************************************************************************)
\* C22: one resolveRedirect call issues one GET; its promise is resolved, with the
\* value of the Location header, only for a response with status 302 and a
\* Location header (and for every such response with a non-empty header); a 404
\* is rejected as not found, every other status that is not 302 as unexpected with
\* the status in the error, and a 302 without Location as missing location.
C22_ResolvesOnlyRedirects ==
  /\ rGets <= 1
  /\ rPromise.settled = "resolved"
       => /\ rReply.statusCode = 302
          /\ rReply.location # None
          /\ rPromise.value = rReply.location
  /\ rReply.kind = "response"
       => /\ (rReply.statusCode = 302 /\ rReply.location \notin {None, Some(<<>>)})
               => rPromise.settled = "resolved"
          /\ rReply.statusCode = 404
               => /\ rPromise.settled = "rejected"
                  /\ rPromise.reason = "Version does not exist."
          /\ rReply.statusCode \notin {302, 404}
               => /\ rPromise.settled = "rejected"
                  /\ rPromise.reason = "Error: Expected status 302"
                  /\ rPromise.got = rReply.statusCode
          /\ (rReply.statusCode = 302 /\ rReply.location = None)
               => /\ rPromise.settled = "rejected"
                  /\ rPromise.reason = "Error: Server did not respond with redirect location."

\* C22 witness: a response with status 200 and a Location header was rejected.
C22_Witness ==
  /\ rReply.kind = "response"
  /\ rReply.statusCode = 200
  /\ rReply.location \notin {None, Some(<<>>)}
  /\ rPromise.settled = "rejected"

(***************************************************************************)
(* Properties of the arguments of the child                                *)
(***************************************************************************)
\* The arguments java was given before "-jar", and after the jar path.
JvmArgsOf(argv) == SubSeq(argv, 1, IndexOf(argv, "-jar"))
AppArgsOf(argv) == SubSeq(argv, IndexOf(argv, "-jar") + 3, Len(argv))

\* The position of the n-th "--" at or after position from, 0 when there is none.
RECURSIVE NthSeparator(_, _, _)
NthSeparator(args, n, from) ==
  IF from > Len(args) THEN 0
  ELSE IF args[from] = "--"
       THEN IF n = 1 THEN from ELSE NthSeparator(args, n - 1, from + 1)
       ELSE NthSeparator(args, n, from + 1)

\* C23: when the positional arguments hold a "--", the child's JVM arguments are
\* the configured ones followed by the arguments after the first "--" (up to
\* the second "--" when there is one), and when there is a second "--" the
\* arguments after it are application arguments of the child.
C23_SeparatorsSplitArguments ==
  (aArgv # None /\ Includes(aPositional, "--"))
    => LET first == NthSeparator(aPositional, 1, 1)
           second == NthSeparator(aPositional, 2, 1)
       IN IF second = 0
          THEN JvmArgsOf(aArgv[1])
                 = aConfigured.jvmArgs \o SubSeq(aPositional, first + 1, Len(aPositional))
          ELSE /\ JvmArgsOf(aArgv[1])
                    = aConfigured.jvmArgs \o SubSeq(aPositional, first + 1, second - 1)
               /\ AppArgsOf(aArgv[1])
                    = aConfigured.processArgs
                        \o SubSeq(aPositional, second + 1, Len(aPositional))

(***************************************************************************)
(* Properties of the launch command                                        *)
(***************************************************************************)
\* C19: a child is spawned only after exists() has been seen to return true for
\* the resolved version, and when the version resolution, the requested compile or
\* the download has failed, or the download was declined, the command has ended
\* with exit code 1, no child spawned, copyMods not called and no handler installed.
C19_SpawnOnlyAfterJarSeen ==
  /\ nProcs > 0 => "jarSeen" \in lDid
  /\ launcher # "starting" => "jarSeen" \in lDid
  /\ (\/ vPc = "failed" /\ lPc # "resolving"
      \/ lResult.why \in {"compile failed", "download declined"}
      \/ dRet = "false" /\ lPc # "downloading")
       => /\ lPc \in {"returned", "threw"}
          /\ ExitCodeOf(lResult) = 1
          /\ nProcs = 0
          /\ launcher = "starting"
          /\ "copyMods" \notin lDid

\* C19 witness: the version was not there, was downloaded, and the child was
\* spawned.
C19_Witness ==
  /\ "download" \in lDid
  /\ dRet = "true"
  /\ launcher = "running"
  /\ nProcs = 1

\* C20: download() is never called for a custom version, and a custom name whose
\* path does not exist makes the resolution fail, so that the command ends
\* without a download.
C20_CustomNeverDownloaded ==
  /\ "download" \in lDid => ~dVersion.isCustom
  /\ LET custom == LookupCustom(vInput.customVersionNames, vInput.version)
     IN (Truthy(custom) /\ ~ExistsSync(vInput.fs, custom) /\ vPc # "idle")
          => /\ vPc = "failed"
             /\ "download" \notin lDid
             /\ lPc \in {"resolving", "threw"}

\* C20 witness: the file of a custom version was gone when the impl looked for
\* it after the resolution, and the command ended without a download.
C20_Witness ==
  /\ vResult # NoVersion
  /\ vResult[1].isCustom
  /\ ~vResult[1].isSourceDirectory
  /\ lPc = "threw"
  /\ "download" \notin lDid

(***************************************************************************)
(* Properties of the log files                                             *)
(***************************************************************************)
\* C29: each launch and each restart writes to its own log file: two spawned children
\* never have the same log file name, also when spawned within one second.
C29_OneLogFilePerSpawn ==
  \A p, q \in ProcIds :
    (p # q /\ procs[p].logFile # None /\ procs[q].logFile # None)
      => procs[p].logFile # procs[q].logFile

(***************************************************************************)
(* Properties of the registry scan                                         *)
(***************************************************************************)
\* The entries of a registry that match a version string structurally: the prefix
\* is a prefix of the string and the remainder passes the validator.
Matching(registry, version) ==
  {i \in 1..Len(registry) :
     /\ StartsWith(version, registry[i].prefix)
     /\ NumberValidator(registry[i].numberValidator,
                        ReplaceFirst(version, registry[i].prefix))}

C31_ShippedFamiliesExclusive ==
  (fRegistry \in ShippedOrders /\ fFound # None)
    => /\ Cardinality(Matching(fRegistry, fVersion)) <= 1
       /\ fFound[1] = ScanRegistry(versionUrls, fVersion, 1, NoFamily)

\* A string that starts with three of the prefixes has been resolved to the one
\* family that matches it, the registry being iterated from its last entry on.
C31_Witness ==
  /\ fRegistry \in ShippedOrders
  /\ fRegistry[1].name = "vanilla" /\ fRegistry[2].name = "be"
  /\ fFound # None
  /\ fFound[1].versionType = Some("foo-v6")
  /\ Cardinality({i \in 1..Len(fRegistry) :
                    StartsWith(fVersion, fRegistry[i].prefix)}) = 3
  /\ Cardinality(Matching(fRegistry, fVersion)) = 1

(***************************************************************************)
(* Properties of the version resolver                                      *)
(***************************************************************************)
Families == {versionUrls[i] : i \in 1..Len(versionUrls)}
IsCustomName(version) == version \in DOMAIN vInput.customVersionNames
\* what follows the first Len(prefix) characters of s
After(s, prefix) == SubSeq(s, Len(prefix) + 1, Len(s))
\* the errors fail() reports to the user for a string that is no custom name
UserInputErrors ==
  { "fail: Invalid version",
    "fail: Invalid custom version: filepath does not exist" }

\* C6: for every family F and every number N that F's validator accepts, other
\* than "latest", resolving F.prefix + N (not a custom name) returns a Version
\* with family F, number N, isSourceDirectory = false and isCustom = false.
C6_PrefixNumberResolvesToFamily ==
  \A F \in Families :
    LET N == After(vInput.version, F.prefix)
    IN (/\ vPc # "idle"
        /\ ~IsCustomName(vInput.version)
        /\ StartsWith(vInput.version, F.prefix)
        /\ NumberValidator(F.numberValidator, N)
        /\ N # S_latest)
       => /\ vPc = "done"
          /\ vResult # NoVersion
          /\ vResult[1].versionType = Some(F.name)
          /\ vResult[1].versionNumber = Some(N)
          /\ vResult[1].isSourceDirectory = FALSE
          /\ vResult[1].isCustom = FALSE

\* C6 witness: foo-v6-16 resolved to family foo-v6, number 16.
C6_Witness ==
  /\ vPc = "done"
  /\ vInput.version = S_foov6 \o <<"1", "6">>
  /\ vResult[1].versionType = Some("foo-v6")
  /\ vResult[1].versionNumber = Some(<<"1", "6">>)

\* C7: when F.prefix + "latest" (not a custom name) resolves to a Version, its
\* number is not "latest" but the concrete number that follows the tag marker in
\* the redirect target, and its path is <folderPath>/v<F.prefix><number>.jar.
C7_LatestRewrittenBeforePath ==
  \A F \in Families :
    (/\ vPc = "done"
     /\ ~IsCustomName(vInput.version)
     /\ vInput.version = F.prefix \o S_latest)
    => /\ vResult # NoVersion
       /\ vResult[1].versionType = Some(F.name)
       /\ vResult[1].versionNumber # None
       /\ LET n == vResult[1].versionNumber[1]
          IN /\ n # S_latest
             /\ NumberValidator(F.numberValidator, n)
             /\ vLocation # None
             /\ \E i \in 1..Len(vLocation[1]) :
                  OccursAt(vLocation[1], F.getLatestVersion \o n, i)
             /\ vResult[1].path = folderPath \o << <<"v">> \o F.prefix \o n \o S_dotjar >>

\* C7 witness: be-latest resolved through a redirect to .../tag/23.
C7_Witness ==
  /\ vPc = "done"
  /\ vInput.version = S_be \o S_latest
  /\ vLocation = Some(S_tag \o <<"2", "3">>)
  /\ vResult[1].versionNumber = Some(<<"2", "3">>)
  /\ vResult[1].path = folderPath \o << <<"v", "b", "e", "-", "2", "3", ".", "j", "a", "r">> >>

C9_UnmatchedStringFails ==
  (/\ vPc # "idle"
   /\ ~IsCustomName(vInput.version)
   /\ \A F \in Families :
        ~(/\ StartsWith(vInput.version, F.prefix)
          /\ NumberValidator(F.numberValidator, After(vInput.version, F.prefix))))
  => /\ vPc = "failed"
     /\ vResult = NoVersion
     /\ vError \in UserInputErrors

\* C9 witness: "be-x" failed with "Invalid version".
C9_Witness ==
  /\ vPc = "failed"
  /\ vInput.version = S_be \o <<"x">>
  /\ vError = "fail: Invalid version"
  /\ vResult = NoVersion

(***************************************************************************)
(* Properties of the download                                              *)
(***************************************************************************)
\* The path download() renames to, and the path the body is written to.
FinalPath == DownloadFilePath(dVersion)
TmpPath == AppendText(DownloadFilePath(dVersion), S_dottmp)

\* C27: nothing but a complete body is ever at the final path; while the body is
\* piped only the .tmp path is written; and the final path changes only by the
\* rename download() makes after the write stream has finished with the whole
\* body of a 200 response at the .tmp path.
C27_FinalPathOnlyByRename ==
  [][/\ dFiles'[FinalPath] \in {"absent", "complete"}
     /\ dStream.state = "piping"
          => \A path \in DOMAIN dFiles : path # TmpPath => dFiles'[path] = dFiles[path]
     /\ dFiles'[FinalPath] # dFiles[FinalPath]
          => /\ dPc = "renaming"
             /\ dStream.state = "finished"
             /\ dStream.statusCode = 200
             /\ dFiles[TmpPath] = "complete"
             /\ dFiles'[TmpPath] = "absent"]_vars

\* C27 witness: a body of several chunks was written to the .tmp path and then
\* renamed to the final path.
C27_Witness ==
  /\ dRet = "true"
  /\ dStream.chunks > 1
  /\ dFiles[FinalPath] = "complete"
  /\ dFiles[TmpPath] = "absent"

\* C30: a download() call that has not returned yet has not ended in a crash and
\* can still go on: it never ends otherwise than by returning true or false.
C30_DownloadAlwaysReturns ==
  dRet = "pending" => (dPc # "crashed" /\ ENABLED NextDownload)

C5_ExistsIffDownloaded ==
  /\ dRet # "pending" => (exists(dFiles, dVersion) <=> dRet = "true")
  /\ dRet # "true" => dFiles[dVersion.path] = "absent"

\* C5 witness: a download answered with a status that is not 200 returned false,
\* the error body went to the .tmp path only.
C5_Witness ==
  /\ dPc = "returned"
  /\ dRet = "false"
  /\ dStream.statusCode = 404
  /\ dStream.state = "finished"
  /\ dFiles[AppendText(dVersion.path, S_dottmp)] = "errorBody"
  /\ ~exists(dFiles, dVersion)

====
